---- MODULE Spec2Model ----
(***************************************************************************)
(* Roll-up engine of the INLC strategic dashboard (src/lib/rollup.ts and   *)
(* its browser twin src/js/rollup.js).                                     *)
(*                                                                         *)
(* The module is a set of pure functions over an Objective -> Strategy ->  *)
(* Tactic -> KPI tree.  The state of the model is one call: the exported   *)
(* function that was invoked, its argument (a record keyed by the name of  *)
(* the parameter) and the value it returned (a record: percent, status,    *)
(* total or count for a plain result, the object itself for a composite    *)
(* one).  Every exported function is one action; Done is the caller        *)
(* dropping the result, after which the next call starts afresh.  held is  *)
(* the value the caller owns and passes to the functions; a call that      *)
(* throws returns TypeError instead of a value.                            *)
(*                                                                         *)
(* Numbers.  JavaScript numbers are modelled as exact fractions <<n, d>>   *)
(* in lowest terms with d > 0; the three non-finite results of a division  *)
(* are <<1, 0>> (Infinity), <<-1, 0>> (-Infinity) and <<0, 0>> (NaN).      *)
(* target and current are integers; rounding of IEEE doubles is not        *)
(* modelled.                                                               *)
(*                                                                         *)
(* Optional lists.  A field declared `kpis?: KPI[]` is a record            *)
(* [present, items]; present = FALSE is the missing (undefined) field.     *)
(*                                                                         *)
(* The ETL script (scripts/etl.ts) and the static server (serve.js) have   *)
(* specifications of their own further down: SpecETL calls the parsers and *)
(* buildHierarchy on sheets of rows, SpecRun runs main against the data    *)
(* directory one process after another, SpecServer handles one request.    *)
(***************************************************************************)
EXTENDS Integers, Sequences, FiniteSets, TLC

VARIABLES call, arg, ret, held

\* the ETL process (scripts/etl.ts): the statement of main it is at, the
\* number of the run, the wall clock, the data directory and main's locals
VARIABLES pc, run, clock, disk, mem

etlVars == <<pc, run, clock, disk, mem>>

vars == <<call, arg, ret, held, pc, run, clock, disk, mem>>

(***************************************************************************)
(* Bounds of the explored inputs.                                          *)
(***************************************************************************)
\* target and current of a KPI passed to kpiPct / kpiStatus: -MaxAbs..MaxAbs
MaxAbs == 4
\* aggPct: percentages k/PctDen, sequences of at most MaxVals of them
PctDen == 4
MaxVals == 3
\* getStatusLevel: percentages n/d with 1 <= d <= MaxDen, -1 <= n <= d+1
MaxDen == 20
\* tactic / strategy calls: KPIs per list, tactics per strategy
MaxKpis == 2
MaxTactics == 2
\* objective calls: strategies per objective
MaxStrategies == 2
\* objectives page: objectives in the loaded objectives.json
MaxObjectives == 2

(***************************************************************************)
(* JavaScript numbers as fractions.                                        *)
(***************************************************************************)
Abs(x) == IF x < 0 THEN -x ELSE x

Sgn(x) == IF x < 0 THEN -1 ELSE IF x > 0 THEN 1 ELSE 0

RECURSIVE GCD(_, _)
GCD(a, b) == IF b = 0 THEN a ELSE GCD(b, a % b)

\* the fraction n/d, d # 0, in lowest terms with a positive denominator
Frac(n, d) ==
  LET g == GCD(Abs(n), Abs(d))
  IN  <<Sgn(d) * (n \div g), Abs(d) \div g>>

Zero == <<0, 1>>
One == <<1, 1>>
NaN == <<0, 0>>

IsNaN(x) == x = NaN

\* a / b for two integers: x/0 is Infinity, -Infinity or NaN
NumDiv(a, b) == IF b = 0 THEN <<Sgn(a), 0>> ELSE Frac(a, b)

\* x <= y, for x and y not NaN (cross-multiplication; denominators >= 0)
Leq(x, y) == x[1] * y[2] <= y[1] * x[2]

\* Math.min / Math.max of two numbers: NaN if either is NaN
MathMin(x, y) == IF IsNaN(x) \/ IsNaN(y) THEN NaN ELSE IF Leq(x, y) THEN x ELSE y

MathMax(x, y) == IF IsNaN(x) \/ IsNaN(y) THEN NaN ELSE IF Leq(x, y) THEN y ELSE x

\* a + b on finite fractions
NumAdd(x, y) == Frac(x[1] * y[2] + y[1] * x[2], x[2] * y[2])

\* x / n for a finite fraction x and a list length n > 0
NumDivLen(x, n) == Frac(x[1], x[2] * n)

(***************************************************************************)
(* Data model (src/types/strategy.ts).                                     *)
(***************************************************************************)
MetricType == {"numeric", "milestone"}

StatusLevel == {"on-track", "at-risk", "off-track"}

Values == (-MaxAbs)..MaxAbs

\* the fields of a KPI that the roll-up reads
KPI == [metricType : MetricType, target : Values, current : Values]

Some(items) == [present |-> TRUE, items |-> items]

Missing == [present |-> FALSE, items |-> <<>>]

\* `list ?? []` (rollup.ts) and `list || []` (rollup.js)
OrEmpty(list) == IF list.present THEN list.items ELSE <<>>

SeqUpTo(S, n) == {<<>>} \cup UNION {[1..m -> S] : m \in 1..n}

\* an optional list of at most n elements of S
OptList(S, n) == {Missing} \cup {Some(items) : items \in SeqUpTo(S, n)}

Numeric(current, target) ==
  [metricType |-> "numeric", target |-> target, current |-> current]

Milestone(current) == [metricType |-> "milestone", target |-> 1, current |-> current]

\* KPIs placed in the tactics and strategies: 50% and a finished milestone
TreeKPIs == {Numeric(2, 4), Milestone(1)}

Tactics(nk) == [kpis : OptList(TreeKPIs, nk)]

Strategies(nk, nt) == [kpis : OptList(TreeKPIs, nk), tactics : OptList(Tactics(nk), nt)]

Tactic == Tactics(MaxKpis)

Strategy == Strategies(MaxKpis, MaxTactics)

\* strategies placed in the objectives
TreeStrategies ==
  { \* nothing attached, both lists missing
    [kpis |-> Missing, tactics |-> Missing],
    \* empty lists and a tactic without KPIs
    [kpis |-> Some(<<>>), tactics |-> Some(<<[kpis |-> Missing]>>)],
    \* one direct KPI: 100%
    [kpis |-> Some(<<Milestone(1)>>), tactics |-> Missing],
    \* one direct KPI: 0%
    [kpis |-> Some(<<Numeric(0, 4)>>), tactics |-> Some(<<>>)],
    \* two direct KPIs, 60% and 80% of target: 70%
    [kpis |-> Some(<<Numeric(3, 5), Numeric(4, 5)>>), tactics |-> Missing],
    \* tactic KPIs only, one tactic empty: 75%
    [kpis |-> Missing,
     tactics |-> Some(<<[kpis |-> Some(<<>>)], [kpis |-> Some(<<Numeric(3, 4)>>)]>>)],
    \* one direct KPI and one tactic KPI, both 100%
    [kpis |-> Some(<<Numeric(6, 4)>>),
     tactics |-> Some(<<[kpis |-> Some(<<Milestone(5)>>)]>>)],
    \* one direct KPI (0%) and tactics of one and two KPIs (100%; 50%, 100%)
    [kpis |-> Some(<<Numeric(-1, 4)>>),
     tactics |-> Some(<<[kpis |-> Some(<<Milestone(1)>>)],
                        [kpis |-> Some(<<Numeric(2, 4), Numeric(4, 4)>>)]>>)],
    \* as exported by the ETL, with ids, names and back-references; the
    \* back-references of both KPIs name other entities than their containers
    [id |-> "3.5", name |-> "Protect land",
     kpis |-> Some(<<[id |-> "3.5.1", name |-> "Acres conserved", metricType |-> "numeric",
                      target |-> 4, current |-> 4, unit |-> "acres",
                      objectiveId |-> "3", strategyId |-> "9.9"]>>),
     tactics |-> Some(<<[id |-> "3.5.6", name |-> "Outreach",
                         kpis |-> Some(<<[id |-> "3.5.6.1", name |-> "Events held",
                                          metricType |-> "numeric", target |-> 4,
                                          current |-> 1, unit |-> "events",
                                          objectiveId |-> "3", strategyId |-> "3.5",
                                          tacticId |-> "3.5.1"]>>)]>>)] }

Objective == [strategies : SeqUpTo(TreeStrategies, MaxStrategies)]

\* objectives placed in objectives.json: no strategy, one, or a fixed pair
TreeObjectives ==
  {[strategies |-> <<>>]}
    \cup {[strategies |-> <<s>>] : s \in TreeStrategies}
    \cup {[strategies |-> <<[kpis |-> Some(<<Milestone(1)>>), tactics |-> Missing],
                            [kpis |-> Some(<<Numeric(0, 4)>>), tactics |-> Some(<<>>)]>>]}

\* the parsed objectives.json
ObjectivesData == [objectives : SeqUpTo(TreeObjectives, MaxObjectives)]

Pcts == {Frac(k, PctDen) : k \in 0..PctDen}

StatusPcts == {Frac(n, d) : n \in (-1)..(MaxDen + 1), d \in 1..MaxDen}

(***************************************************************************)
(* rollup.ts                                                               *)
(***************************************************************************)
THRESHOLD_ON_TRACK == Frac(70, 100)

THRESHOLD_AT_RISK == Frac(40, 100)

\* kpiPct without the cap at 100%
kpiPct_noCap(k) ==
  IF k.metricType = "numeric"
  THEN IF k.target = 0
       THEN Zero
       ELSE MathMax(Zero, NumDiv(k.current, k.target))
  ELSE IF k.current # 0 THEN One ELSE Zero

\* kpiPct without the division-by-zero guard
kpiPct_noZeroGuard(k) ==
  IF k.metricType = "numeric"
  THEN MathMax(Zero, MathMin(One, NumDiv(k.current, k.target)))
  ELSE IF k.current # 0 THEN One ELSE Zero

\* kpiPct without the floor at 0
kpiPct_noFloor(k) ==
  IF k.metricType = "numeric"
  THEN IF k.target = 0
       THEN Zero
       ELSE MathMin(One, NumDiv(k.current, k.target))
  ELSE IF k.current # 0 THEN One ELSE Zero

\* kpiPct with the milestone test of the README (current > 0)
kpiPct_milestonePositive(k) ==
  IF k.metricType = "numeric"
  THEN IF k.target = 0
       THEN Zero
       ELSE MathMax(Zero, MathMin(One, NumDiv(k.current, k.target)))
  ELSE IF k.current > 0 THEN One ELSE Zero

\* kpiPct dividing target by current (operands swapped)
kpiPct_swapped(k) ==
  IF k.metricType = "numeric"
  THEN IF k.target = 0
       THEN Zero
       ELSE MathMax(Zero, MathMin(One, NumDiv(k.target, k.current)))
  ELSE IF k.current # 0 THEN One ELSE Zero

kpiPct(k) ==
  IF k.metricType = "numeric"
  THEN IF k.target = 0
       THEN Zero
       ELSE MathMax(Zero, MathMin(One, NumDiv(k.current, k.target)))
  ELSE IF k.current # 0 THEN One ELSE Zero

\* vals.reduce((a, b) => a + b, acc), in rollup.ts and in rollup.js
RECURSIVE reduceAdd(_, _)
reduceAdd(vals, acc) ==
  IF vals = <<>> THEN acc ELSE reduceAdd(Tail(vals), NumAdd(acc, Head(vals)))

\* aggPct returning the sum, not divided by the length
aggPct_sum(vals) ==
  IF Len(vals) = 0 THEN Zero ELSE reduceAdd(vals, Zero)

\* aggPct without the empty guard: 0 / 0
aggPct_noEmptyGuard(vals) ==
  IF Len(vals) = 0 THEN NaN ELSE NumDivLen(reduceAdd(vals, Zero), Len(vals))

\* aggPct counting an empty list as complete
aggPct_emptyIsComplete(vals) ==
  IF Len(vals) = 0 THEN One ELSE NumDivLen(reduceAdd(vals, Zero), Len(vals))

aggPct(vals) ==
  IF Len(vals) = 0 THEN Zero ELSE NumDivLen(reduceAdd(vals, Zero), Len(vals))

\* kpis.map(kpiPct)
mapKpiPct(kpis) == [i \in 1..Len(kpis) |-> kpiPct(kpis[i])]

\* tacticPct reporting the first KPI only
tacticPct_first(t) ==
  IF ~t.kpis.present \/ Len(t.kpis.items) = 0
  THEN Zero
  ELSE kpiPct(t.kpis.items[1])

tacticPct(t) ==
  IF ~t.kpis.present \/ Len(t.kpis.items) = 0
  THEN Zero
  ELSE aggPct(mapKpiPct(t.kpis.items))

\* tactics.flatMap(t => (t.kpis ?? []).map(kpiPct))
RECURSIVE flatMapKpiPct(_)
flatMapKpiPct(tactics) ==
  IF tactics = <<>>
  THEN <<>>
  ELSE mapKpiPct(OrEmpty(Head(tactics).kpis)) \o flatMapKpiPct(Tail(tactics))

\* strategyPct as the average of the direct average and the tactic averages
strategyPct_avgOfAvgs(s) ==
  LET direct == mapKpiPct(OrEmpty(s.kpis))
      tactics == OrEmpty(s.tactics)
      directAvg == IF Len(direct) = 0 THEN <<>> ELSE <<aggPct(direct)>>
      tacticAvgs == [i \in 1..Len(tactics) |-> tacticPct(tactics[i])]
  IN  aggPct(directAvg \o tacticAvgs)

\* strategyPct giving up on a strategy whose tactics list is missing
strategyPct_needsTactics(s) ==
  IF ~s.tactics.present
  THEN Zero
  ELSE LET directKPIs == mapKpiPct(OrEmpty(s.kpis))
           tacticKPIs == flatMapKpiPct(OrEmpty(s.tactics))
           allVals == directKPIs \o tacticKPIs
       IN  aggPct(allVals)

\* strategyPct taking as direct KPIs those whose strategyId names the strategy
strategyPct_byStrategyId(s) ==
  LET sid == IF "id" \in DOMAIN s THEN s.id ELSE "undefined"
      Ref(k) == IF "strategyId" \in DOMAIN k THEN k.strategyId ELSE "undefined"
      own == SelectSeq(OrEmpty(s.kpis), LAMBDA k : Ref(k) = sid)
      directKPIs == mapKpiPct(own)
      tacticKPIs == flatMapKpiPct(OrEmpty(s.tactics))
      allVals == directKPIs \o tacticKPIs
  IN  aggPct(allVals)

strategyPct(s) ==
  LET directKPIs == mapKpiPct(OrEmpty(s.kpis))
      tacticKPIs == flatMapKpiPct(OrEmpty(s.tactics))
      allVals == directKPIs \o tacticKPIs
  IN  aggPct(allVals)

\* strategies.map(strategyPct)
mapStrategyPct(strategies) == [i \in 1..Len(strategies) |-> strategyPct(strategies[i])]

\* objectivePct as one pooled average over every leaf KPI of the objective
RECURSIVE flatMapStrategyLeaves(_)
flatMapStrategyLeaves(strategies) ==
  IF strategies = <<>>
  THEN <<>>
  ELSE mapKpiPct(OrEmpty(Head(strategies).kpis))
         \o flatMapKpiPct(OrEmpty(Head(strategies).tactics))
         \o flatMapStrategyLeaves(Tail(strategies))

objectivePct_pooled(o) == aggPct(flatMapStrategyLeaves(o.strategies))

\* o.strategies is a required field: `!o.strategies` is false on every Objective
\* objectivePct averaging over the strategies that have KPIs only
objectivePct_skipsEmptyStrategies(o) ==
  LET measured == SelectSeq(o.strategies,
                            LAMBDA s : Len(OrEmpty(s.kpis)) + Len(flatMapKpiPct(OrEmpty(s.tactics))) > 0)
  IN  IF Len(measured) = 0 THEN Zero ELSE aggPct(mapStrategyPct(measured))

objectivePct(o) ==
  IF Len(o.strategies) = 0 THEN Zero ELSE aggPct(mapStrategyPct(o.strategies))

\* getStatusLevel with strict comparisons: a boundary value falls in the lower band
getStatusLevel_strict(pct) ==
  IF ~Leq(pct, THRESHOLD_ON_TRACK) THEN "on-track"
  ELSE IF ~Leq(pct, THRESHOLD_AT_RISK) THEN "at-risk"
  ELSE "off-track"

getStatusLevel(pct) ==
  IF Leq(THRESHOLD_ON_TRACK, pct) THEN "on-track"
  ELSE IF Leq(THRESHOLD_AT_RISK, pct) THEN "at-risk"
  ELSE "off-track"

StatusWithPercent(percent, status, total) ==
  [percent |-> percent, status |-> status, total |-> total]

kpiStatus(k) ==
  LET percent == kpiPct(k)
  IN  StatusWithPercent(percent, getStatusLevel(percent), 1)

tacticStatus(t) ==
  LET percent == tacticPct(t)
  IN  StatusWithPercent(percent, getStatusLevel(percent), Len(OrEmpty(t.kpis)))

\* the reduce counting the tactics instead of their KPIs
RECURSIVE reduceTacticKpis_countTactics(_, _)
reduceTacticKpis_countTactics(tactics, acc) ==
  IF tactics = <<>>
  THEN acc
  ELSE reduceTacticKpis_countTactics(Tail(tactics), acc + 1)

\* tactics.reduce((sum, t) => sum + (t.kpis ?? []).length, acc)
RECURSIVE reduceTacticKpis(_, _)
reduceTacticKpis(tactics, acc) ==
  IF tactics = <<>>
  THEN acc
  ELSE reduceTacticKpis(Tail(tactics), acc + Len(OrEmpty(Head(tactics).kpis)))

strategyStatus(s) ==
  LET percent == strategyPct(s)
      directKPICount == Len(OrEmpty(s.kpis))
      tacticKPICount == reduceTacticKpis(OrEmpty(s.tactics), 0)
  IN  StatusWithPercent(percent, getStatusLevel(percent), directKPICount + tacticKPICount)

\* o.strategies.reduce((sum, s) => sum + directKPIs + tacticKPIs, acc)
RECURSIVE reduceStrategyKpis(_, _)
reduceStrategyKpis(strategies, acc) ==
  IF strategies = <<>>
  THEN acc
  ELSE LET s == Head(strategies)
           directKPIs == Len(OrEmpty(s.kpis))
           tacticKPIs == reduceTacticKpis(OrEmpty(s.tactics), 0)
       IN  reduceStrategyKpis(Tail(strategies), acc + directKPIs + tacticKPIs)

objectiveStatus(o) ==
  LET percent == objectivePct(o)
      totalKPIs == reduceStrategyKpis(o.strategies, 0)
  IN  StatusWithPercent(percent, getStatusLevel(percent), totalKPIs)

strategyKPICount(s) ==
  LET directKPIs == Len(OrEmpty(s.kpis))
      tacticKPIs == reduceTacticKpis(OrEmpty(s.tactics), 0)
  IN  directKPIs + tacticKPIs

objectiveStrategyCount(o) == Len(o.strategies)

(***************************************************************************)
(* rollup.js (the browser module imported by the pages)                    *)
(***************************************************************************)
jsKpiPct(kpi) ==
  IF kpi.metricType = "numeric"
  THEN IF kpi.target = 0
       THEN Zero
       ELSE MathMax(Zero, MathMin(One, NumDiv(kpi.current, kpi.target)))
  ELSE IF kpi.current # 0 THEN One ELSE Zero

jsAggPct(vals) ==
  IF Len(vals) = 0 THEN Zero ELSE NumDivLen(reduceAdd(vals, Zero), Len(vals))

jsMapKpiPct(kpis) == [i \in 1..Len(kpis) |-> jsKpiPct(kpis[i])]

jsTacticPct(tactic) ==
  IF ~tactic.kpis.present \/ Len(tactic.kpis.items) = 0
  THEN Zero
  ELSE jsAggPct(jsMapKpiPct(tactic.kpis.items))

RECURSIVE jsFlatMapKpiPct(_)
jsFlatMapKpiPct(tactics) ==
  IF tactics = <<>>
  THEN <<>>
  ELSE jsMapKpiPct(OrEmpty(Head(tactics).kpis)) \o jsFlatMapKpiPct(Tail(tactics))

\* rollup.js strategyPct left at direct KPIs only, tactics not rolled in
jsStrategyPct_directOnly(strategy) ==
  LET directKPIs == jsMapKpiPct(OrEmpty(strategy.kpis))
  IN  jsAggPct(directKPIs)

jsStrategyPct(strategy) ==
  LET directKPIs == jsMapKpiPct(OrEmpty(strategy.kpis))
      tacticKPIs == jsFlatMapKpiPct(OrEmpty(strategy.tactics))
      allVals == directKPIs \o tacticKPIs
  IN  jsAggPct(allVals)

jsMapStrategyPct(strategies) ==
  [i \in 1..Len(strategies) |-> jsStrategyPct(strategies[i])]

jsObjectivePct(objective) ==
  IF Len(objective.strategies) = 0
  THEN Zero
  ELSE jsAggPct(jsMapStrategyPct(objective.strategies))

\* rollup.js edited to 80% while rollup.ts stays at 70%
jsTHRESHOLD_ON_TRACK_80 == Frac(80, 100)

\* rollup.js declares its own pair of thresholds
jsTHRESHOLD_ON_TRACK == Frac(70, 100)

jsTHRESHOLD_AT_RISK == Frac(40, 100)

jsGetStatusLevel(pct) ==
  IF Leq(jsTHRESHOLD_ON_TRACK, pct) THEN "on-track"
  ELSE IF Leq(jsTHRESHOLD_AT_RISK, pct) THEN "at-risk"
  ELSE "off-track"

calculateStatus(percent, total) ==
  [percent |-> percent, status |-> jsGetStatusLevel(percent), total |-> total]

getStatusLabel(status) ==
  CASE status = "on-track" -> "On Track"
    [] status = "at-risk" -> "At Risk"
    [] status = "off-track" -> "Off Track"
    [] OTHER -> "Unknown"

\* tactics.reduce((sum, t) => sum + (t.kpis || []).length, acc)
RECURSIVE jsReduceTacticKpis(_, _)
jsReduceTacticKpis(tactics, acc) ==
  IF tactics = <<>>
  THEN acc
  ELSE jsReduceTacticKpis(Tail(tactics), acc + Len(OrEmpty(Head(tactics).kpis)))

jsStrategyKPICount(strategy) ==
  LET directKPIs == Len(OrEmpty(strategy.kpis))
      tacticKPIs == jsReduceTacticKpis(OrEmpty(strategy.tactics), 0)
  IN  directKPIs + tacticKPIs

\* objective.strategies.reduce((sum, s) => sum + strategyKPICount(s), acc)
RECURSIVE reduceStrategyKPICount(_, _)
reduceStrategyKPICount(strategies, acc) ==
  IF strategies = <<>>
  THEN acc
  ELSE reduceStrategyKPICount(Tail(strategies), acc + jsStrategyKPICount(Head(strategies)))

objectiveKPICount(objective) == reduceStrategyKPICount(objective.strategies, 0)

(***************************************************************************)
(* Objectives overview page (src/js objectives page, updateSummaryCards)   *)
(***************************************************************************)
\* (pct * 100).toFixed(0) for a finite pct >= 0: the nearest integer, ties up
toFixed0Percent(pct) == (200 * pct[1] + pct[2]) \div (2 * pct[2])

\* formatPercent(pct, 0) is the text toFixed0Percent(pct) followed by "%"
formatPercent0(pct) == <<toFixed0Percent(pct), "%">>

\* objectives.reduce((sum, o) => sum + o.strategies.length, acc)
RECURSIVE reduceStrategyCount(_, _)
reduceStrategyCount(objectives, acc) ==
  IF objectives = <<>>
  THEN acc
  ELSE reduceStrategyCount(Tail(objectives), acc + Len(Head(objectives).strategies))

\* objectives.reduce((sum, o) => sum + objectiveKPICount(o), acc)
RECURSIVE reduceObjectiveKPICount(_, _)
reduceObjectiveKPICount(objectives, acc) ==
  IF objectives = <<>>
  THEN acc
  ELSE reduceObjectiveKPICount(Tail(objectives), acc + objectiveKPICount(Head(objectives)))

\* objectives.map(objectivePct)
jsMapObjectivePct(objectives) ==
  [i \in 1..Len(objectives) |-> jsObjectivePct(objectives[i])]

\* strategies.map(strategyPct) over the strategies of every objective
RECURSIVE jsFlatMapStrategyPct(_)
jsFlatMapStrategyPct(objectives) ==
  IF objectives = <<>>
  THEN <<>>
  ELSE jsMapStrategyPct(Head(objectives).strategies) \o jsFlatMapStrategyPct(Tail(objectives))

\* updateSummaryCards averaging over all strategies instead of over the objectives
updateSummaryCards_overStrategies(data) ==
  LET objectives == data.objectives
      totalObjectives == Len(objectives)
      totalStrategies == reduceStrategyCount(objectives, 0)
      totalKPIs == reduceObjectiveKPICount(objectives, 0)
      overallProgress == jsAggPct(jsFlatMapStrategyPct(objectives))
  IN  [ overallProgress |-> overallProgress,
        totalObjectivesText |-> totalObjectives,
        totalStrategiesText |-> totalStrategies,
        totalKPIsText |-> totalKPIs,
        overallProgressText |-> formatPercent0(overallProgress) ]

\* the locals of updateSummaryCards and the four texts it writes
updateSummaryCards(data) ==
  LET objectives == data.objectives
      totalObjectives == Len(objectives)
      totalStrategies == reduceStrategyCount(objectives, 0)
      totalKPIs == reduceObjectiveKPICount(objectives, 0)
      overallProgress == jsAggPct(jsMapObjectivePct(objectives))
  IN  [ overallProgress |-> overallProgress,
        totalObjectivesText |-> totalObjectives,
        totalStrategiesText |-> totalStrategies,
        totalKPIsText |-> totalKPIs,
        overallProgressText |-> formatPercent0(overallProgress) ]

\* one list item of renderObjectivesList: the locals of the map callback
\* and the texts of the badge and of the progress bar
renderObjective(obj) ==
  LET percent == jsObjectivePct(obj)
      status == jsGetStatusLevel(percent)
      kpiCount == objectiveKPICount(obj)
      strategyCount == Len(obj.strategies)
  IN  [ percent |-> percent,
        status |-> status,
        kpiCount |-> kpiCount,
        strategyCount |-> strategyCount,
        badgeText |-> getStatusLabel(status),
        barText |-> formatPercent0(percent) ]

\* the items written to #objectivesList; none (a notice) for an empty list
renderObjectivesList(objectives) ==
  IF Len(objectives) = 0
  THEN [items |-> <<>>]
  ELSE [items |-> [i \in 1..Len(objectives) |-> renderObjective(objectives[i])]]

(***************************************************************************)
(* Errors.  Arithmetic never throws in JavaScript (a division by zero is   *)
(* Infinity or NaN); the one operation of these modules that can throw is  *)
(* reading a property (length, map, flatMap, reduce) of a list that is     *)
(* undefined.  For every function, ...Reads is the definedness of each     *)
(* list whose property the function reads; arrays the function builds      *)
(* itself (the results of map and flatMap) are always defined.             *)
(***************************************************************************)
\* the list read as it is, without the default
Defaulted_asIs(list) == list

\* the value of `list ?? []` (rollup.ts) and of `list || []` (rollup.js)
Defaulted(list) == IF list.present THEN list ELSE Some(<<>>)

Defined(list) == list.present

TypeError == [error |-> "TypeError"]

\* a call returns its result unless one of its reads throws
Outcome(reads, result) == IF FALSE \in reads THEN TypeError ELSE result

\* vals.length, vals.reduce
aggPctReads(vals) == {Defined(Some(vals))}

\* `!t.kpis || t.kpis.length === 0`, then t.kpis.map
tacticPctReads(t) == IF ~t.kpis.present THEN {} ELSE {Defined(t.kpis)}

\* (s.kpis ?? []).map, (s.tactics ?? []).flatMap, (t.kpis ?? []).map
strategyPctReads(s) ==
  {Defined(Defaulted(s.kpis)), Defined(Defaulted(s.tactics))}
    \cup {Defined(Defaulted(OrEmpty(s.tactics)[i].kpis)) : i \in 1..Len(OrEmpty(s.tactics))}

\* `!o.strategies || o.strategies.length === 0`, then o.strategies.map(strategyPct)
objectivePctReads(o) ==
  {Defined(Some(o.strategies))}
    \cup UNION {strategyPctReads(o.strategies[i]) : i \in 1..Len(o.strategies)}

\* tacticPct(t), (t.kpis ?? []).length
tacticStatusReads(t) == tacticPctReads(t) \cup {Defined(Defaulted(t.kpis))}

\* (s.kpis ?? []).length, (s.tactics ?? []).reduce, (t.kpis ?? []).length
strategyKPICountReads(s) ==
  {Defined(Defaulted(s.kpis)), Defined(Defaulted(s.tactics))}
    \cup {Defined(Defaulted(OrEmpty(s.tactics)[i].kpis)) : i \in 1..Len(OrEmpty(s.tactics))}

\* strategyPct(s), then the same reads as strategyKPICount
strategyStatusReads(s) == strategyPctReads(s) \cup strategyKPICountReads(s)

\* objectivePct(o), o.strategies.reduce and the reads inside its callback
objectiveStatusReads(o) ==
  objectivePctReads(o)
    \cup {Defined(Some(o.strategies))}
    \cup UNION {strategyKPICountReads(o.strategies[i]) : i \in 1..Len(o.strategies)}

\* o.strategies.length
objectiveStrategyCountReads(o) == {Defined(Some(o.strategies))}

\* (strategy.kpis || []).length, (strategy.tactics || []).reduce, (t.kpis || []).length
jsStrategyKPICountReads(strategy) ==
  {Defined(Defaulted(strategy.kpis)), Defined(Defaulted(strategy.tactics))}
    \cup {Defined(Defaulted(OrEmpty(strategy.tactics)[i].kpis)) :
            i \in 1..Len(OrEmpty(strategy.tactics))}

\* objective.strategies.reduce, strategyKPICount(s)
objectiveKPICountReads(objective) ==
  {Defined(Some(objective.strategies))}
    \cup UNION {jsStrategyKPICountReads(objective.strategies[i]) :
                  i \in 1..Len(objective.strategies)}

\* objectives.length, objectives.reduce, o.strategies.length,
\* objectiveKPICount(o), objectives.map(objectivePct); objectivePct of
\* rollup.js reads the lists that objectivePct of rollup.ts reads
updateSummaryCardsReads(data) ==
  {Defined(Some(data.objectives))}
    \cup UNION {{Defined(Some(data.objectives[i].strategies))}
                  \cup objectiveKPICountReads(data.objectives[i])
                  \cup objectivePctReads(data.objectives[i]) :
                  i \in 1..Len(data.objectives)}

\* objectives.length, objectives.map; per item objectivePct(obj),
\* objectiveKPICount(obj), obj.strategies.length
renderObjectivesListReads(objectives) ==
  {Defined(Some(objectives))}
    \cup UNION {{Defined(Some(objectives[i].strategies))}
                  \cup objectiveKPICountReads(objectives[i])
                  \cup objectivePctReads(objectives[i]) :
                  i \in 1..Len(objectives)}

(***************************************************************************)
(* The calls.  The caller holds one value (a KPI, a list of percentages, a *)
(* tactic, a strategy, an objective, a percentage or the parsed            *)
(* objectives.json) and passes it to the functions that take it.           *)
(***************************************************************************)
Inputs ==
  {[kpi |-> k] : k \in KPI}
    \cup {[vals |-> vals] : vals \in SeqUpTo(Pcts, MaxVals)}
    \cup {[tactic |-> t] : t \in Tactic}
    \cup {[strategy |-> s] : s \in Strategy \cup TreeStrategies}
    \cup {[objective |-> o] : o \in Objective}
    \cup {[pct |-> pct] : pct \in StatusPcts}
    \cup {[data |-> data] : data \in ObjectivesData}

Holds(kind) == DOMAIN held = {kind}

\* the module keeps nothing between calls: a call starts from the idle state
Idle == call = "none"

\* while the functions are called no ETL process runs
NoRun ==
  /\ pc = "none"
  /\ run = 0
  /\ clock = 0
  /\ disk = <<>>
  /\ mem = <<>>

Returns(f, a, r) == call' = f /\ arg' = a /\ ret' = r /\ UNCHANGED etlVars

\* the caller has consumed the result; no trace of the call remains
Done ==
  /\ ~Idle
  /\ call' = "none" /\ arg' = <<>> /\ ret' = <<>>
  /\ UNCHANGED held
  /\ UNCHANGED etlVars

Init == call = "none" /\ arg = <<>> /\ ret = <<>> /\ held \in Inputs /\ NoRun

CallKpiPct ==
  /\ Idle /\ Holds("kpi")
  /\ Returns("kpiPct", [k |-> held.kpi],
             Outcome({}, [percent |-> kpiPct(held.kpi)]))
  /\ UNCHANGED held

CallAggPct ==
  /\ Idle /\ Holds("vals")
  /\ Returns("aggPct", [vals |-> held.vals],
             Outcome(aggPctReads(held.vals), [percent |-> aggPct(held.vals)]))
  /\ UNCHANGED held

CallTacticPct ==
  /\ Idle /\ Holds("tactic")
  /\ Returns("tacticPct", [t |-> held.tactic],
             Outcome(tacticPctReads(held.tactic), [percent |-> tacticPct(held.tactic)]))
  /\ UNCHANGED held

CallStrategyPct ==
  /\ Idle /\ Holds("strategy")
  /\ Returns("strategyPct", [s |-> held.strategy],
             Outcome(strategyPctReads(held.strategy), [percent |-> strategyPct(held.strategy)]))
  /\ UNCHANGED held

CallObjectivePct ==
  /\ Idle /\ Holds("objective")
  /\ Returns("objectivePct", [o |-> held.objective],
             Outcome(objectivePctReads(held.objective), [percent |-> objectivePct(held.objective)]))
  /\ UNCHANGED held

CallGetStatusLevel ==
  /\ Idle /\ Holds("pct")
  /\ Returns("getStatusLevel", [pct |-> held.pct],
             Outcome({}, [status |-> getStatusLevel(held.pct)]))
  /\ UNCHANGED held

CallKpiStatus ==
  /\ Idle /\ Holds("kpi")
  /\ Returns("kpiStatus", [k |-> held.kpi],
             Outcome({}, kpiStatus(held.kpi)))
  /\ UNCHANGED held

CallTacticStatus ==
  /\ Idle /\ Holds("tactic")
  /\ Returns("tacticStatus", [t |-> held.tactic],
             Outcome(tacticStatusReads(held.tactic), tacticStatus(held.tactic)))
  /\ UNCHANGED held

\* strategyStatus storing the defaults in its argument
\* (s.kpis = s.kpis ?? [], s.tactics = s.tactics ?? [])
CallStrategyStatus_storesDefaults ==
  /\ Idle /\ Holds("strategy")
  /\ Returns("strategyStatus", [s |-> held.strategy],
             Outcome(strategyStatusReads(held.strategy), strategyStatus(held.strategy)))
  /\ held' = [strategy |-> [held.strategy EXCEPT !.kpis = Defaulted(@),
                                                 !.tactics = Defaulted(@)]]

CallStrategyStatus ==
  /\ Idle /\ Holds("strategy")
  /\ Returns("strategyStatus", [s |-> held.strategy],
             Outcome(strategyStatusReads(held.strategy), strategyStatus(held.strategy)))
  /\ UNCHANGED held

CallObjectiveStatus ==
  /\ Idle /\ Holds("objective")
  /\ Returns("objectiveStatus", [o |-> held.objective],
             Outcome(objectiveStatusReads(held.objective), objectiveStatus(held.objective)))
  /\ UNCHANGED held

CallStrategyKPICount ==
  /\ Idle /\ Holds("strategy")
  /\ Returns("strategyKPICount", [s |-> held.strategy],
             Outcome(strategyKPICountReads(held.strategy),
                     [total |-> strategyKPICount(held.strategy)]))
  /\ UNCHANGED held

CallObjectiveStrategyCount ==
  /\ Idle /\ Holds("objective")
  /\ Returns("objectiveStrategyCount", [o |-> held.objective],
             Outcome(objectiveStrategyCountReads(held.objective),
                     [count |-> objectiveStrategyCount(held.objective)]))
  /\ UNCHANGED held

CallJsStrategyKPICount ==
  /\ Idle /\ Holds("strategy")
  /\ Returns("jsStrategyKPICount", [strategy |-> held.strategy],
             Outcome(jsStrategyKPICountReads(held.strategy),
                     [total |-> jsStrategyKPICount(held.strategy)]))
  /\ UNCHANGED held

CallObjectiveKPICount ==
  /\ Idle /\ Holds("objective")
  /\ Returns("objectiveKPICount", [objective |-> held.objective],
             Outcome(objectiveKPICountReads(held.objective),
                     [total |-> objectiveKPICount(held.objective)]))
  /\ UNCHANGED held

CallUpdateSummaryCards ==
  /\ Idle /\ Holds("data")
  /\ Returns("updateSummaryCards", [data |-> held.data],
             Outcome(updateSummaryCardsReads(held.data), updateSummaryCards(held.data)))
  /\ UNCHANGED held

CallCalculateStatus ==
  /\ Idle /\ Holds("pct")
  /\ \E total \in 0..MaxKpis :
       Returns("calculateStatus", [percent |-> held.pct, total |-> total],
               Outcome({}, calculateStatus(held.pct, total)))
  /\ UNCHANGED held

CallRenderObjectivesList ==
  /\ Idle /\ Holds("data")
  /\ Returns("renderObjectivesList", [objectives |-> held.data.objectives],
             Outcome(renderObjectivesListReads(held.data.objectives),
                     renderObjectivesList(held.data.objectives)))
  /\ UNCHANGED held

Next ==
  \/ CallKpiPct
  \/ CallAggPct
  \/ CallTacticPct
  \/ CallStrategyPct
  \/ CallObjectivePct
  \/ CallGetStatusLevel
  \/ CallKpiStatus
  \/ CallTacticStatus
  \/ CallStrategyStatus
  \/ CallObjectiveStatus
  \/ CallStrategyKPICount
  \/ CallObjectiveStrategyCount
  \/ CallJsStrategyKPICount
  \/ CallObjectiveKPICount
  \/ CallUpdateSummaryCards
  \/ CallCalculateStatus
  \/ CallRenderObjectivesList
  \/ Done

Spec == Init /\ [][Next]_vars

(***************************************************************************)
(* ETL (scripts/etl.ts).  A string that the script splits or joins is a    *)
(* sequence of one-character strings; a string that it only compares (the  *)
(* Type column after trim().toLowerCase()) is a string.  A source row is   *)
(* the row after getColumnValue, String() and trim(): [id, name, type] for *)
(* Combined Objectives, [id, name] for the tracking sheet.  Of an entity   *)
(* and of a KPI the model keeps the fields the linking reads (id, the      *)
(* three parent ids, the child lists); a KPI also carries `row`, the index *)
(* of the sheet row that produced it, which stands for the identity of the *)
(* object.  A Map is the sequence of its values in insertion order.        *)
(***************************************************************************)
\* Combined Objectives: at most MaxHierarchyRows rows
MaxHierarchyRows == 3
\* tracking sheet: at most MaxTrackingRows rows
MaxTrackingRows == 2

\* s.split(c) for a one-character c
RECURSIVE split(_, _)
split(s, c) ==
  LET found == {i \in 1..Len(s) : s[i] = c}
      indexOf == CHOOSE i \in found : \A j \in found : i <= j
  IN  IF found = {}
      THEN <<s>>
      ELSE <<SubSeq(s, 1, indexOf - 1)>> \o split(SubSeq(s, indexOf + 1, Len(s)), c)

\* parts.join(c)
RECURSIVE join(_, _)
join(parts, c) ==
  IF Len(parts) = 0
  THEN <<>>
  ELSE IF Len(parts) = 1
       THEN parts[1]
       ELSE parts[1] \o <<c>> \o join(Tail(parts), c)

\* parts.slice(0, n)
slice(parts, n) == SubSeq(parts, 1, IF n < Len(parts) THEN n ELSE Len(parts))

\* an optional string is [defined, str]; this is the one that is undefined
undefined == [defined |-> FALSE, str |-> <<>>]

\* the truthiness of an optional string: undefined and '' are falsy
truthy(x) == x.defined /\ x.str # <<>>

parseIdHierarchy(id) ==
  LET parts == split(id, ".")
      defined(s) == [defined |-> TRUE, str |-> s]
  IN  [objectiveId |-> parts[1],
       strategyId |-> IF Len(parts) >= 2 THEN defined(join(slice(parts, 2), ".")) ELSE undefined,
       tacticId |-> IF Len(parts) >= 3 THEN defined(join(slice(parts, 3), ".")) ELSE undefined]

\* the rows of Combined Objectives.xlsx explored: objective "1", strategy
\* "1.1" and tactic "1.1.1" with an empty Type, "1.1" typed objective,
\* "1.1.1" typed strategy, and a row "1" without a name
HierarchyRow ==
  {[id |-> <<"1">>, name |-> <<"n">>, type |-> ""],
   [id |-> <<"1", ".", "1">>, name |-> <<"n">>, type |-> ""],
   [id |-> <<"1", ".", "1", ".", "1">>, name |-> <<"n">>, type |-> ""],
   [id |-> <<"1", ".", "1">>, name |-> <<"n">>, type |-> "objective"],
   [id |-> <<"1", ".", "1", ".", "1">>, name |-> <<"n">>, type |-> "strategy"],
   [id |-> <<"1">>, name |-> <<>>, type |-> ""]}

\* the rows of the tracking sheet explored: KPIs "1.1.1.1", "1.1.2" and "1",
\* and a row "1.1.1.1" without a name
TrackingRow ==
  {[id |-> <<"1", ".", "1", ".", "1", ".", "1">>, name |-> <<"n">>],
   [id |-> <<"1", ".", "1", ".", "2">>, name |-> <<"n">>],
   [id |-> <<"1">>, name |-> <<"n">>],
   [id |-> <<"1", ".", "1", ".", "1", ".", "1">>, name |-> <<>>]}

\* entities.set(entity.id, entity): a key already present keeps its place
set(entities, entity) ==
  IF \E i \in 1..Len(entities) : entities[i].id = entity.id
  THEN [i \in 1..Len(entities) |->
          IF entities[i].id = entity.id THEN entity ELSE entities[i]]
  ELSE Append(entities, entity)

\* the body of rows.forEach in parseCombinedObjectives for one row
parseHierarchyRow(entities, row) ==
  IF row.id = <<>> \/ row.name = <<>>
  THEN entities
  ELSE LET parts == split(row.id, ".")
       IN  IF Len(parts) = 1 \/ row.type = "objective" \/ row.type = "goal"
           THEN set(entities, [id |-> row.id, strategies |-> <<>>])
           ELSE IF Len(parts) = 2 \/ row.type = "strategy"
                THEN set(entities, [id |-> row.id, tactics |-> <<>>, kpis |-> <<>>])
                ELSE IF Len(parts) >= 3 \/ row.type = "tactic" \/ row.type = "action"
                     THEN set(entities, [id |-> row.id, kpis |-> <<>>])
                     ELSE entities

\* a missing workbook is the empty list of rows
parseCombinedObjectives(rows) ==
  LET after[i \in 0..Len(rows)] ==
        IF i = 0 THEN <<>> ELSE parseHierarchyRow(after[i - 1], rows[i])
  IN  after[Len(rows)]

\* the body of rows.forEach in parseTrackingData for the row at index idx
parseTrackingRow(kpis, rows, idx) ==
  IF rows[idx].id = <<>> \/ rows[idx].name = <<>>
  THEN kpis
  ELSE LET hierarchy == parseIdHierarchy(rows[idx].id)
       IN  Append(kpis, [row |-> idx, id |-> rows[idx].id,
                         objectiveId |-> hierarchy.objectiveId,
                         strategyId |-> hierarchy.strategyId,
                         tacticId |-> hierarchy.tacticId])

\* rows.forEach((row, idx) => ...)
parseTrackingData(rows) ==
  LET after[idx \in 0..Len(rows)] ==
        IF idx = 0 THEN <<>> ELSE parseTrackingRow(after[idx - 1], rows, idx)
  IN  after[Len(rows)]

\* entities.forEach in buildHierarchy: the map an entity is put in
kindOf(entity) ==
  IF "strategies" \in DOMAIN entity
  THEN "objective"
  ELSE IF "tactics" \in DOMAIN entity
       THEN "strategy"
       ELSE IF "kpis" \in DOMAIN entity THEN "tactic" ELSE "none"

\* objectives.has(id), strategies.has(id), tactics.has(id)
has(entities, id, kind) ==
  \E i \in 1..Len(entities) : kindOf(entities[i]) = kind /\ entities[i].id = id

\* entities.get(id)[list].push(child)
push(entities, id, list, child) ==
  [i \in 1..Len(entities) |->
     IF entities[i].id = id
     THEN [entities[i] EXCEPT ![list] = Append(@, child)]
     ELSE entities[i]]

\* the body of kpis.forEach in buildHierarchy
attachKpi_strategyFirst(entities, kpi) ==
  IF truthy(kpi.strategyId) /\ has(entities, kpi.strategyId.str, "strategy")
  THEN push(entities, kpi.strategyId.str, "kpis", kpi)
  ELSE IF truthy(kpi.tacticId) /\ has(entities, kpi.tacticId.str, "tactic")
       THEN push(entities, kpi.tacticId.str, "kpis", kpi)
       ELSE entities

attachKpi_both(entities, kpi) ==
  LET linked == IF truthy(kpi.tacticId) /\ has(entities, kpi.tacticId.str, "tactic")
                THEN push(entities, kpi.tacticId.str, "kpis", kpi)
                ELSE entities
  IN  IF truthy(kpi.strategyId) /\ has(entities, kpi.strategyId.str, "strategy")
      THEN push(linked, kpi.strategyId.str, "kpis", kpi)
      ELSE linked

attachKpi(entities, kpi) ==
  IF truthy(kpi.tacticId) /\ has(entities, kpi.tacticId.str, "tactic")
  THEN push(entities, kpi.tacticId.str, "kpis", kpi)
  ELSE IF truthy(kpi.strategyId) /\ has(entities, kpi.strategyId.str, "strategy")
       THEN push(entities, kpi.strategyId.str, "kpis", kpi)
       ELSE entities

\* the body of tactics.forEach in buildHierarchy
attachTactic(entities, tactic) ==
  LET strategyId == join(slice(split(tactic.id, "."), 2), ".")
  IN  IF has(entities, strategyId, "strategy")
      THEN push(entities, strategyId, "tactics", tactic)
      ELSE entities

\* the body of strategies.forEach in buildHierarchy
attachStrategy(entities, strategy) ==
  LET objectiveId == split(strategy.id, ".")[1]
  IN  IF has(entities, objectiveId, "objective")
      THEN push(entities, objectiveId, "strategies", strategy)
      ELSE entities

\* the entities of the caller's Map once buildHierarchy has linked them (the
\* function mutates the objects of the Map it is given): kpis.forEach, then
\* tactics.forEach, then strategies.forEach
linked(entities, kpis) ==
  LET isTactic(entity) == kindOf(entity) = "tactic"
      isStrategy(entity) == kindOf(entity) = "strategy"
      withKpis[i \in 0..Len(kpis)] ==
        IF i = 0 THEN entities ELSE attachKpi(withKpis[i - 1], kpis[i])
      tactics == SelectSeq(withKpis[Len(kpis)], isTactic)
      withTactics[i \in 0..Len(tactics)] ==
        IF i = 0 THEN withKpis[Len(kpis)] ELSE attachTactic(withTactics[i - 1], tactics[i])
      strategies == SelectSeq(withTactics[Len(tactics)], isStrategy)
      withStrategies[i \in 0..Len(strategies)] ==
        IF i = 0
        THEN withTactics[Len(tactics)]
        ELSE attachStrategy(withStrategies[i - 1], strategies[i])
  IN  withStrategies[Len(strategies)]

\* Array.from(objectives.values())
buildHierarchy(entities, kpis) ==
  LET isObjective(entity) == kindOf(entity) = "objective"
  IN  SelectSeq(linked(entities, kpis), isObjective)

EtlInputs ==
  {[hierarchyRows |-> h] : h \in SeqUpTo(HierarchyRow, MaxHierarchyRows)}
    \cup {[trackingRows |-> t] : t \in SeqUpTo(TrackingRow, MaxTrackingRows)}
    \cup {[parsed |-> [entities |-> parseCombinedObjectives(h), kpis |-> parseTrackingData(t)]] :
            h \in SeqUpTo(HierarchyRow, MaxHierarchyRows),
            t \in SeqUpTo(TrackingRow, MaxTrackingRows)}

InitETL == call = "none" /\ arg = <<>> /\ ret = <<>> /\ held \in EtlInputs /\ NoRun

CallParseCombinedObjectives ==
  /\ Idle /\ Holds("hierarchyRows")
  /\ Returns("parseCombinedObjectives", [rows |-> held.hierarchyRows],
             [entities |-> parseCombinedObjectives(held.hierarchyRows)])
  /\ UNCHANGED held

CallParseTrackingData ==
  /\ Idle /\ Holds("trackingRows")
  /\ Returns("parseTrackingData", [rows |-> held.trackingRows],
             [kpis |-> parseTrackingData(held.trackingRows)])
  /\ UNCHANGED held

\* the call leaves the linked entities in the caller's Map
CallBuildHierarchy ==
  /\ Idle /\ Holds("parsed")
  /\ Returns("buildHierarchy", [entities |-> held.parsed.entities, kpis |-> held.parsed.kpis],
             [objectives |-> buildHierarchy(held.parsed.entities, held.parsed.kpis)])
  /\ held' = [linked |-> [entities |-> linked(held.parsed.entities, held.parsed.kpis),
                          kpis |-> held.parsed.kpis]]

NextETL ==
  \/ CallParseCombinedObjectives
  \/ CallParseTrackingData
  \/ CallBuildHierarchy
  \/ Done

SpecETL == InitETL /\ [][NextETL]_vars

(***************************************************************************)
(* One ETL process after another (`npm run etl`, main of scripts/etl.ts).  *)
(* held is the pair of source workbooks in data-source/, which the script  *)
(* only reads.  disk is the data directory: whether data/backups exists,   *)
(* objectives.json, kpis.json and the backup files by timestamp.  A data   *)
(* file is [exists, valid, json]: valid says that its text is JSON, json   *)
(* is the value JSON.parse returns for it.  The clock counts milliseconds; *)
(* a process starts at least one millisecond after the one before it, and  *)
(* the model lets no time pass inside a process.  A backup is filed under  *)
(* the timestamp in its name.                                              *)
(***************************************************************************)
\* processes started one after another
MaxRuns == 2
\* milliseconds between the starts of two processes: 1..MaxTick
MaxTick == 2

\* the source workbooks explored: the full chain 1 / 1.1 / 1.1.1 with KPIs
\* 1.1.1.1 and 1.1.2, the same KPI row twice under 1 / 1.1, no workbook
SourceFiles ==
  {[hierarchyRows |-> <<[id |-> <<"1">>, name |-> <<"n">>, type |-> ""],
                        [id |-> <<"1", ".", "1">>, name |-> <<"n">>, type |-> ""],
                        [id |-> <<"1", ".", "1", ".", "1">>, name |-> <<"n">>, type |-> ""]>>,
    trackingRows |-> <<[id |-> <<"1", ".", "1", ".", "1", ".", "1">>, name |-> <<"n">>],
                       [id |-> <<"1", ".", "1", ".", "2">>, name |-> <<"n">>]>>],
   [hierarchyRows |-> <<[id |-> <<"1">>, name |-> <<"n">>, type |-> ""],
                        [id |-> <<"1", ".", "1">>, name |-> <<"n">>, type |-> ""]>>,
    trackingRows |-> <<[id |-> <<"1", ".", "1", ".", "1", ".", "1">>, name |-> <<"n">>],
                       [id |-> <<"1", ".", "1", ".", "1", ".", "1">>, name |-> <<"n">>]>>],
   [hierarchyRows |-> <<>>, trackingRows |-> <<>>]}

\* JSON.stringify drops the properties whose value is undefined
jsonKpis(kpis) ==
  LET jsonKpi(kpi) ==
        [f \in {"row", "id", "objectiveId"}
                 \cup (IF kpi.strategyId.defined THEN {"strategyId"} ELSE {})
                 \cup (IF kpi.tacticId.defined THEN {"tacticId"} ELSE {}) |->
           IF f \in {"strategyId", "tacticId"} THEN kpi[f].str ELSE kpi[f]]
  IN  [i \in 1..Len(kpis) |-> jsonKpi(kpis[i])]

jsonObjectives(objectives) ==
  LET jsonTactic(t) == [id |-> t.id, kpis |-> jsonKpis(t.kpis)]
      jsonStrategy(s) ==
        [id |-> s.id,
         tactics |-> [i \in 1..Len(s.tactics) |-> jsonTactic(s.tactics[i])],
         kpis |-> jsonKpis(s.kpis)]
      jsonObjective(o) ==
        [id |-> o.id,
         strategies |-> [i \in 1..Len(o.strategies) |-> jsonStrategy(o.strategies[i])]]
  IN  [i \in 1..Len(objectives) |-> jsonObjective(objectives[i])]

\* the value of objectives.json / kpis.json that main writes
objectivesData(objectives, now) ==
  [objectives |-> jsonObjectives(objectives), lastSync |-> now, version |-> "1.0"]

kpisData(kpis, now) == [kpis |-> jsonKpis(kpis), lastSync |-> now, version |-> "1.0"]

\* a file that does not exist
NoFile == [exists |-> FALSE, valid |-> FALSE, json |-> <<>>]

\* a file whose text is not JSON (cut short, edited by hand)
Corrupt == [exists |-> TRUE, valid |-> FALSE, json |-> <<>>]

\* a file as fs.writeFileSync(path, JSON.stringify(json, null, 2)) leaves it
Written(json) == [exists |-> TRUE, valid |-> TRUE, json |-> json]

\* the data files an earlier version of the workbooks left behind
OldObjectives ==
  Written(objectivesData(<<[id |-> <<"9">>, strategies |-> <<>>]>>, 0))

OldKpis ==
  Written(kpisData(<<[row |-> 1, id |-> <<"9">>, objectiveId |-> <<"9">>,
                      strategyId |-> undefined, tacticId |-> undefined]>>, 0))

\* backupData: the property is there only when the file existed
backupData(objectives, kpis) ==
  [objectives |-> [present |-> objectives.exists, json |-> objectives.json],
   kpis |-> [present |-> kpis.exists, json |-> kpis.json]]

\* new Date().toISOString() at millisecond now: of `...T00:00:0s.00mZ` the
\* model keeps `0:s.mZ`, a clock of ten milliseconds to the second
toISOString(now) ==
  LET digits == <<"0", "1", "2", "3", "4", "5", "6", "7", "8", "9">>
  IN  <<"0", ":", digits[((now \div 10) % 10) + 1], ".", digits[(now % 10) + 1], "Z">>

\* const timestamp = new Date().toISOString().replace(/[:.]/g, '-')
timestamp(now) ==
  LET iso == toISOString(now)
  IN  [i \in 1..Len(iso) |-> IF iso[i] \in {":", "."} THEN "-" ELSE iso[i]]

\* fs.writeFileSync(backup_<timestamp>.json): creates the file or replaces it
writeBackup(backups, name, data) ==
  [t \in DOMAIN backups \cup {name} |-> IF t = name THEN data ELSE backups[t]]

NoLocals == [entities |-> <<>>, kpis |-> <<>>, objectives |-> <<>>]

InitRun ==
  /\ call = "none" /\ arg = <<>> /\ ret = <<>>
  /\ held \in {[sources |-> s] : s \in SourceFiles}
  /\ pc = "main"
  /\ run = 1
  /\ clock = 1
  /\ disk \in {[backupDir |-> DOMAIN b # {}, objectives |-> o, kpis |-> k, backups |-> b] :
                 o \in {NoFile, Corrupt, OldObjectives},
                 k \in {NoFile, Corrupt, OldKpis},
                 b \in {<<>>, [t \in {timestamp(0)} |-> backupData(OldObjectives, NoFile)]}}
  /\ mem = NoLocals

\* ensureDirectories(): data/ and data/backups/ are created when missing
EnsureDirectories ==
  /\ pc = "main"
  /\ disk' = [disk EXCEPT !.backupDir = TRUE]
  /\ pc' = "createBackup"
  /\ UNCHANGED <<run, clock, mem, call, arg, ret, held>>

\* createBackup(): JSON.parse throws on a file that is not JSON, which ends
\* the process; the backup is written when one of the files existed
CreateBackup_objectivesOnly ==
  /\ pc = "createBackup"
  /\ IF (disk.objectives.exists /\ ~disk.objectives.valid)
          \/ (disk.kpis.exists /\ ~disk.kpis.valid)
     THEN pc' = "crashed" /\ UNCHANGED disk
     ELSE /\ pc' = "parse"
          /\ IF disk.objectives.exists
             THEN disk' = [disk EXCEPT !.backups =
                             writeBackup(@, timestamp(clock), backupData(disk.objectives, NoFile))]
             ELSE UNCHANGED disk
  /\ UNCHANGED <<run, clock, mem, call, arg, ret, held>>

CreateBackup ==
  /\ pc = "createBackup"
  /\ IF (disk.objectives.exists /\ ~disk.objectives.valid)
          \/ (disk.kpis.exists /\ ~disk.kpis.valid)
     THEN pc' = "crashed" /\ UNCHANGED disk
     ELSE /\ pc' = "parse"
          /\ IF disk.objectives.exists \/ disk.kpis.exists
             THEN disk' = [disk EXCEPT !.backups =
                             writeBackup(@, timestamp(clock), backupData(disk.objectives, disk.kpis))]
             ELSE UNCHANGED disk
  /\ UNCHANGED <<run, clock, mem, call, arg, ret, held>>

\* const entities = parseCombinedObjectives(); const kpis = parseTrackingData()
Parse ==
  /\ pc = "parse"
  /\ mem' = [entities |-> parseCombinedObjectives(held.sources.hierarchyRows),
             kpis |-> parseTrackingData(held.sources.trackingRows),
             objectives |-> <<>>]
  /\ pc' = "buildHierarchy"
  /\ UNCHANGED <<run, clock, disk, call, arg, ret, held>>

\* const objectives = buildHierarchy(entities, kpis)
BuildHierarchy ==
  /\ pc = "buildHierarchy"
  /\ mem' = [entities |-> linked(mem.entities, mem.kpis),
             kpis |-> mem.kpis,
             objectives |-> buildHierarchy(mem.entities, mem.kpis)]
  /\ pc' = "writeObjectives"
  /\ UNCHANGED <<run, clock, disk, call, arg, ret, held>>

\* fs.writeFileSync(OBJECTIVES_OUTPUT, JSON.stringify(objectivesData, null, 2))
WriteObjectives ==
  /\ pc = "writeObjectives"
  /\ disk' = [disk EXCEPT !.objectives = Written(objectivesData(mem.objectives, clock))]
  /\ pc' = "writeKpis"
  /\ UNCHANGED <<run, clock, mem, call, arg, ret, held>>

\* fs.writeFileSync(KPIS_OUTPUT, JSON.stringify(kpisData, null, 2))
WriteKpis_appends ==
  /\ pc = "writeKpis"
  /\ disk' = [disk EXCEPT !.kpis =
                Written([kpisData(mem.kpis, clock) EXCEPT
                           !.kpis = (IF disk.kpis.exists THEN disk.kpis.json.kpis ELSE <<>>) \o @])]
  /\ pc' = "exited"
  /\ UNCHANGED <<run, clock, mem, call, arg, ret, held>>

WriteKpis ==
  /\ pc = "writeKpis"
  /\ disk' = [disk EXCEPT !.kpis = Written(kpisData(mem.kpis, clock))]
  /\ pc' = "exited"
  /\ UNCHANGED <<run, clock, mem, call, arg, ret, held>>

\* the script is started again; the workbooks are the same
Rerun ==
  /\ pc \in {"exited", "crashed"}
  /\ run < MaxRuns
  /\ run' = run + 1
  /\ \E tick \in 1..MaxTick : clock' = clock + tick
  /\ pc' = "main"
  /\ mem' = NoLocals
  /\ UNCHANGED <<disk, call, arg, ret, held>>

NextRun ==
  \/ EnsureDirectories
  \/ CreateBackup
  \/ Parse
  \/ BuildHierarchy
  \/ WriteObjectives
  \/ WriteKpis
  \/ Rerun

SpecRun == InitRun /\ [][NextRun]_vars

(***************************************************************************)
(* Static server (serve.js).  A URL and a path are sequences of            *)
(* one-character strings; path is Node's path.posix.  held is the request  *)
(* that arrives; the handler computes the file path and starts             *)
(* fs.readFile, whose callback answers once the read has ended: with the   *)
(* data, with ENOENT or with another error, whatever the file system holds *)
(* at that path.  req.url is what Node's HTTP parser lets through: an      *)
(* origin-form target, which starts with `/`, or an absolute-form one,     *)
(* scheme://authority/path.                                                *)
(***************************************************************************)
\* characters of the path (and query) of a request target
MaxUrlLen == 6

\* const ROOT_DIR = __dirname, an absolute directory below the file system root
ROOT_DIR == <<"/", "s", "/", "r">>

\* normalizeString of path.posix over the segments between slashes: empty
\* and `.` segments go, `..` takes back the segment before it, and stays
\* when there is none to take back and the path is relative
RECURSIVE normalizeString(_, _, _)
normalizeString(res, segments, allowAboveRoot) ==
  IF segments = <<>>
  THEN res
  ELSE LET seg == Head(segments)
           next == IF seg = <<>> \/ seg = <<".">>
                   THEN res
                   ELSE IF seg = <<".", ".">>
                        THEN IF Len(res) > 0 /\ res[Len(res)] # <<".", ".">>
                             THEN SubSeq(res, 1, Len(res) - 1)
                             ELSE IF allowAboveRoot THEN Append(res, seg) ELSE res
                        ELSE Append(res, seg)
       IN  normalizeString(next, Tail(segments), allowAboveRoot)

\* path.normalize(p)
normalize(p) ==
  IF Len(p) = 0
  THEN <<".">>
  ELSE LET isAbsolute == p[1] = "/"
           trailingSeparator == p[Len(p)] = "/"
           body == join(normalizeString(<<>>, split(p, "/"), ~isAbsolute), "/")
       IN  IF Len(body) = 0
           THEN IF isAbsolute
                THEN <<"/">>
                ELSE IF trailingSeparator THEN <<".", "/">> ELSE <<".">>
           ELSE (IF isAbsolute THEN <<"/">> ELSE <<>>) \o body
                  \o (IF trailingSeparator THEN <<"/">> ELSE <<>>)

\* .replace(/^(\.\.[\/\\])+/, '')
RECURSIVE replaceLeadingDotDot(_)
replaceLeadingDotDot(p) ==
  IF Len(p) >= 3 /\ p[1] = "." /\ p[2] = "." /\ p[3] \in {"/", "\\"}
  THEN replaceLeadingDotDot(SubSeq(p, 4, Len(p)))
  ELSE p

\* path.join(a, b): the non-empty arguments joined by `/`, normalized
pathJoin(a, b) == normalize(IF Len(b) = 0 THEN a ELSE a \o <<"/">> \o b)

\* path.extname(p): from the last `.` of the last segment, '' when there is
\* none or the segment starts with its only `.`
extname(p) ==
  LET segments == split(p, "/")
      base == segments[Len(segments)]
      dots == {i \in 1..Len(base) : base[i] = "."}
      last == CHOOSE i \in dots : \A j \in dots : j <= i
  IN  IF dots = {} \/ last = 1 THEN <<>> ELSE SubSeq(base, last, Len(base))

\* MIME_TYPES[ext] || 'application/octet-stream', for the extensions that the
\* explored paths can carry
contentType(ext) ==
  IF ext = <<".", "h", "t", "m", "l">> THEN "text/html" ELSE "application/octet-stream"

\* lines 23-30: from req.url to the path handed to fs.readFile
filePathOf(url) ==
  LET distIndexHtml ==
        <<"/", "d", "i", "s", "t", "/", "i", "n", "d", "e", "x", ".", "h", "t", "m", "l">>
      target == IF url = <<"/">> THEN distIndexHtml ELSE url
      noQuery == split(target, "?")[1]
  IN  pathJoin(ROOT_DIR, replaceLeadingDotDot(normalize(noQuery)))

\* the callback of fs.readFile: one writeHead and one end
respond(filePath, code) ==
  IF code # "none"
  THEN IF code = "ENOENT"
       THEN [status |-> 404, contentType |-> "text/plain"]
       ELSE [status |-> 500, contentType |-> "text/plain"]
  ELSE [status |-> 200, contentType |-> contentType(extname(filePath))]

\* req.url: origin-form targets of at most MaxUrlLen characters, and
\* absolute-form targets a://<authority and path> built on them
Requests ==
  LET originForm ==
        {u \in UNION {[1..n -> {"/", ".", "a", "?"}] : n \in 1..MaxUrlLen} : u[1] = "/"}
      absoluteForm ==
        {<<"a", ":", "/">> \o u : u \in {v \in originForm : Len(v) >= 2 /\ v[2] # "?"}}
  IN  {[url |-> u] : u \in originForm \cup absoluteForm}

InitServer ==
  /\ call = "none" /\ arg = <<>> /\ ret = <<>>
  /\ held \in {[request |-> r] : r \in Requests}
  /\ NoRun

\* the request handler up to the call of fs.readFile
HandleRequest ==
  /\ Idle /\ Holds("request")
  /\ Returns("request", [url |-> held.request.url],
             [filePath |-> filePathOf(held.request.url), responses |-> <<>>])
  /\ UNCHANGED held

\* the read has ended and the callback runs
ReadFileCallback ==
  /\ call = "request"
  /\ \E code \in {"none", "ENOENT", "EISDIR"} :
       /\ call' = "response"
       /\ ret' = [ret EXCEPT !.responses = Append(@, respond(ret.filePath, code))]
       /\ arg' = [url |-> arg.url, code |-> code]
  /\ UNCHANGED held
  /\ UNCHANGED etlVars

\* the response has been sent and the connection is done with
Sent == call = "response" /\ Done

NextServer ==
  \/ HandleRequest
  \/ ReadFileCallback
  \/ Sent

SpecServer == InitServer /\ [][NextServer]_vars

(***************************************************************************)
(* Properties.                                                             *)
(*                                                                         *)
(* The right-hand sides below are stated with integer arithmetic on the    *)
(* numerators and denominators, not with the operators of the model.       *)
(***************************************************************************)
IsFinite(x) == x[2] > 0

RECURSIVE ProdDen(_)
ProdDen(vals) == IF vals = <<>> THEN 1 ELSE Head(vals)[2] * ProdDen(Tail(vals))

\* sum of vals[i] * D, for D a common multiple of the denominators
RECURSIVE ScaledSum(_, _)
ScaledSum(vals, D) ==
  IF vals = <<>>
  THEN 0
  ELSE Head(vals)[1] * (D \div Head(vals)[2]) + ScaledSum(Tail(vals), D)

\* r is the arithmetic mean of vals, and 0 when vals is empty
IsMeanOf(r, vals) ==
  IF Len(vals) = 0
  THEN r = Zero
  ELSE /\ IsFinite(r)
       /\ r[1] * ProdDen(vals) * Len(vals) = r[2] * ScaledSum(vals, ProdDen(vals))

\* the KPIs of all tactics of a strategy, tactic by tactic
RECURSIVE TacticLeaves(_)
TacticLeaves(tactics) ==
  IF tactics = <<>>
  THEN <<>>
  ELSE OrEmpty(Head(tactics).kpis) \o TacticLeaves(Tail(tactics))

\* every leaf KPI reachable from a strategy
StrategyLeaves(s) == OrEmpty(s.kpis) \o TacticLeaves(OrEmpty(s.tactics))

RECURSIVE ObjectiveLeaves(_)
ObjectiveLeaves(strategies) ==
  IF strategies = <<>>
  THEN <<>>
  ELSE StrategyLeaves(Head(strategies)) \o ObjectiveLeaves(Tail(strategies))

PctsOf(kpis) == [i \in 1..Len(kpis) |-> kpiPct(kpis[i])]

\* C1: strategyPct is one flat average over all leaf KPI percentages of the
\* strategy (direct KPIs and the KPIs of every tactic), 0 when there are none.
C1_StrategyPooledAverage ==
  call = "strategyPct" => IsMeanOf(ret.percent, PctsOf(StrategyLeaves(arg.s)))

\* a strategy with direct KPIs and tactics of unequal size, where the pooled
\* value differs from the average of the sub-averages
C1_Witness ==
  /\ call = "strategyPct"
  /\ Len(OrEmpty(arg.s.kpis)) > 0
  /\ Len(OrEmpty(arg.s.tactics)) = 2
  /\ Len(OrEmpty(OrEmpty(arg.s.tactics)[1].kpis)) # Len(OrEmpty(OrEmpty(arg.s.tactics)[2].kpis))
  /\ ret.percent # strategyPct_avgOfAvgs(arg.s)

\* C2: objectivePct is the mean of strategyPct over the strategies, each
\* strategy counting once, and 0 for an empty strategy list.
C2_ObjectiveMeanOfStrategies ==
  call = "objectivePct" =>
    IsMeanOf(ret.percent, [i \in 1..Len(arg.o.strategies) |-> strategyPct(arg.o.strategies[i])])

\* two strategies holding different numbers of KPIs, where weighting by
\* KPI count would give another value
C2_Witness ==
  /\ call = "objectivePct"
  /\ Len(arg.o.strategies) = 2
  /\ Len(StrategyLeaves(arg.o.strategies[1])) # Len(StrategyLeaves(arg.o.strategies[2]))
  /\ ret.percent # objectivePct_pooled(arg.o)

\* C3: for a numeric KPI, kpiPct is current/target clamped to [0, 1] when
\* target # 0, and 0 when target = 0.
C3_NumericClamp ==
  (call = "kpiPct" /\ arg.k.metricType = "numeric") =>
    LET c == arg.k.current
        t == arg.k.target
    IN  IF t = 0
        THEN ret.percent = Zero
        ELSE /\ IsFinite(ret.percent)
             /\ (c * t < 0 => ret.percent = Zero)
             /\ (c * t > t * t => ret.percent = One)
             /\ (c * t >= 0 /\ c * t <= t * t => ret.percent[1] * t = c * ret.percent[2])

\* 3/4 -> 0.75 (the 75/100 case at the model's scale)
C3_Witness ==
  /\ call = "kpiPct"
  /\ arg.k = [metricType |-> "numeric", target |-> 4, current |-> 3]
  /\ ret.percent = <<3, 4>>

\* C4: kpiPct returns a number in [0, 1] for every KPI.
C4_KpiPctInUnitInterval ==
  call = "kpiPct" => /\ IsFinite(ret.percent)
                     /\ 0 <= ret.percent[1]
                     /\ ret.percent[1] <= ret.percent[2]

\* a numeric KPI with target 0 and a negative current
C4_Witness ==
  /\ call = "kpiPct"
  /\ arg.k.metricType = "numeric"
  /\ arg.k.target = 0
  /\ arg.k.current < 0
  /\ ret.percent = Zero

C6_AggPctMean ==
  /\ call = "aggPct" => IsMeanOf(ret.percent, arg.vals)
  /\ call = "tacticPct" => IsMeanOf(ret.percent, PctsOf(OrEmpty(arg.t.kpis)))
  /\ call = "strategyPct" => IsMeanOf(ret.percent, PctsOf(StrategyLeaves(arg.s)))
  /\ call = "objectivePct" =>
       IsMeanOf(ret.percent,
                [i \in 1..Len(arg.o.strategies) |-> strategyPct(arg.o.strategies[i])])
  /\ call = "updateSummaryCards" =>
       IsMeanOf(ret.overallProgress,
                [i \in 1..Len(arg.data.objectives) |-> jsObjectivePct(arg.data.objectives[i])])

\* average([0.5, 0.75, 1.0]) = 0.75
C6_Witness ==
  /\ call = "aggPct"
  /\ arg.vals = << <<1, 2>>, <<3, 4>>, <<1, 1>> >>
  /\ ret.percent = <<3, 4>>

\* C7: tacticPct is the average of kpiPct over the tactic's own KPI list,
\* and 0 when that list is empty or missing.
C7_TacticAverage ==
  call = "tacticPct" =>
    LET kpis == IF arg.t.kpis.present THEN arg.t.kpis.items ELSE <<>>
    IN  IF Len(kpis) = 0
        THEN ret.percent = Zero
        ELSE IsMeanOf(ret.percent, [i \in 1..Len(kpis) |-> kpiPct(kpis[i])])

\* a tactic with two KPIs of different percentages
C7_Witness ==
  /\ call = "tacticPct"
  /\ arg.t.kpis.present
  /\ Len(arg.t.kpis.items) = 2
  /\ kpiPct(arg.t.kpis.items[1]) # kpiPct(arg.t.kpis.items[2])
  /\ ret.percent # kpiPct(arg.t.kpis.items[1])

\* C8: getStatusLevel gives on-track for pct >= 0.70, at-risk for
\* 0.40 <= pct < 0.70 and off-track for pct < 0.40; 0.70 and 0.40 belong to
\* the higher band.
C8_StatusBands ==
  call = "getStatusLevel" =>
    LET n == arg.pct[1]
        d == arg.pct[2]
    IN  /\ ret.status \in StatusLevel
        /\ 100 * n >= 70 * d => ret.status = "on-track"
        /\ (100 * n >= 40 * d /\ 100 * n < 70 * d) => ret.status = "at-risk"
        /\ 100 * n < 40 * d => ret.status = "off-track"

\* the boundary value 0.70 is on-track
C8_Witness ==
  /\ call = "getStatusLevel"
  /\ arg.pct = <<7, 10>>
  /\ ret.status = "on-track"

\* C9: total is the number of leaf KPIs under the entity: 1 for a KPI, the
\* tactic's KPIs for a tactic, direct plus tactic KPIs for a strategy, and
\* the sum over the strategies for an objective.
C9_TotalIsLeafCount ==
  /\ call = "kpiStatus" => ret.total = 1
  /\ call = "tacticStatus" => ret.total = Len(TacticLeaves(<<arg.t>>))
  /\ call \in {"strategyStatus", "strategyKPICount"} =>
       ret.total = Len(StrategyLeaves(arg.s))
  /\ call = "jsStrategyKPICount" => ret.total = Len(StrategyLeaves(arg.strategy))
  /\ call = "objectiveStatus" => ret.total = Len(ObjectiveLeaves(arg.o.strategies))
  /\ call = "objectiveKPICount" =>
       ret.total = Len(ObjectiveLeaves(arg.objective.strategies))

\* an objective with two strategies: one holding a direct KPI and tactics of
\* one and two KPIs, the other a tactic without KPIs
C9_Witness ==
  /\ call = "objectiveStatus"
  /\ Len(arg.o.strategies) = 2
  /\ \E i \in 1..2 : /\ Len(OrEmpty(arg.o.strategies[i].kpis)) = 1
                     /\ Len(OrEmpty(arg.o.strategies[i].tactics)) = 2
                     /\ Len(TacticLeaves(OrEmpty(arg.o.strategies[i].tactics))) = 3
  /\ \E i \in 1..2 : /\ Len(OrEmpty(arg.o.strategies[i].tactics)) = 1
                     /\ Len(TacticLeaves(OrEmpty(arg.o.strategies[i].tactics))) = 0
  /\ ret.total = 4

\* C10 as stated: a numeric KPI with a negative current has kpiPct 0 for
\* any target.
C10_NegativeCurrentAnyTarget ==
  (call = "kpiPct" /\ arg.k.metricType = "numeric" /\ arg.k.current < 0) =>
    ret.percent = Zero

\* C10 (amended): a numeric KPI with a negative current has kpiPct 0 for any
\* target >= 0; for a negative target the quotient is positive and the
\* result is current/target capped at 1.
C10_NegativeCurrentNonNegativeTarget ==
  (call = "kpiPct" /\ arg.k.metricType = "numeric" /\ arg.k.current < 0) =>
    IF arg.k.target >= 0
    THEN ret.percent = Zero
    ELSE /\ ret.percent # Zero
         /\ IsFinite(ret.percent)
         /\ IF arg.k.current < arg.k.target
            THEN ret.percent = One
            ELSE ret.percent[1] * arg.k.target = arg.k.current * ret.percent[2]

\* -2 of 4 is floored to 0
C10_Witness ==
  /\ call = "kpiPct"
  /\ arg.k = [metricType |-> "numeric", target |-> 4, current |-> -2]
  /\ ret.percent = Zero

\* C11: for numeric KPIs with the same target > 0, kpiPct is non-decreasing
\* in current: current1 <= current2 implies kpiPct(current1) <= kpiPct(current2).
C11_MonotoneInCurrent ==
  (call = "kpiPct" /\ arg.k.metricType = "numeric" /\ arg.k.target > 0) =>
    \A current2 \in Values :
      arg.k.current <= current2 =>
        LET p2 == kpiPct([arg.k EXCEPT !.current = current2])
        IN  /\ IsFinite(ret.percent) /\ IsFinite(p2)
            /\ ret.percent[1] * p2[2] <= p2[1] * ret.percent[2]

\* 1 of 4 is 25%, below the 75% of 3 of 4 and the capped 100% of 5 of 4
C11_Witness ==
  /\ call = "kpiPct"
  /\ arg.k = [metricType |-> "numeric", target |-> 4, current |-> 1]
  /\ ret.percent = <<1, 4>>
  /\ kpiPct([arg.k EXCEPT !.current = 3]) = <<3, 4>>
  /\ kpiPct([arg.k EXCEPT !.current = MaxAbs]) = One

\* the same tree with every absent list replaced by an empty one
EmptyForMissing(list) == IF list.present THEN list ELSE Some(<<>>)

TacticAllPresent(t) == [t EXCEPT !.kpis = EmptyForMissing(t.kpis)]

StrategyAllPresent(s) ==
  LET tactics == OrEmpty(s.tactics)
  IN  [s EXCEPT !.kpis = EmptyForMissing(s.kpis),
                !.tactics = Some([i \in 1..Len(tactics) |-> TacticAllPresent(tactics[i])])]

ObjectiveAllPresent(o) ==
  [o EXCEPT !.strategies =
     [i \in 1..Len(o.strategies) |-> StrategyAllPresent(o.strategies[i])]]

\* C12: a missing optional list is treated as empty: replacing every absent
\* tactic.kpis, strategy.kpis and strategy.tactics by an empty list changes
\* none of the percentages, statuses and totals of tacticPct, strategyPct,
\* objectivePct, tacticStatus, strategyStatus, objectiveStatus and
\* strategyKPICount.
C12_MissingListIsEmpty ==
  /\ call = "tacticPct" => ret.percent = tacticPct(TacticAllPresent(arg.t))
  /\ call = "strategyPct" => ret.percent = strategyPct(StrategyAllPresent(arg.s))
  /\ call = "objectivePct" => ret.percent = objectivePct(ObjectiveAllPresent(arg.o))
  /\ call = "tacticStatus" => ret = tacticStatus(TacticAllPresent(arg.t))
  /\ call = "strategyStatus" => ret = strategyStatus(StrategyAllPresent(arg.s))
  /\ call = "objectiveStatus" => ret = objectiveStatus(ObjectiveAllPresent(arg.o))
  /\ call = "strategyKPICount" => ret.total = strategyKPICount(StrategyAllPresent(arg.s))

\* a strategy with two direct KPIs and no tactics field, reported from its
\* direct KPIs alone
C12_Witness ==
  /\ call = "strategyStatus"
  /\ ~arg.s.tactics.present
  /\ Len(OrEmpty(arg.s.kpis)) = 2
  /\ ret.percent # Zero
  /\ ret.total = 2

\* C13: no entry point raises an error on a structurally valid tree, zero
\* targets, negative currents, empty or missing KPI lists, empty strategy
\* lists and milestones with a current outside {0, 1} included: every call
\* returns a value.
C13_NoEntryPointThrows == call # "none" => ret # TypeError

\* objectiveStatus on an objective whose strategies have missing lists, an
\* over-target KPI and a milestone with current 5
C13_Witness ==
  /\ call = "objectiveStatus"
  /\ Len(arg.o.strategies) = 2
  /\ \E i \in 1..2 : ~arg.o.strategies[i].kpis.present /\ ~arg.o.strategies[i].tactics.present
  /\ \E i \in 1..2 :
       LET leaves == StrategyLeaves(arg.o.strategies[i])
       IN  \E j \in 1..Len(leaves) : leaves[j] = Milestone(5)
  /\ ret.status \in StatusLevel

InUnitInterval(x) == IsFinite(x) /\ 0 <= x[1] /\ x[1] <= x[2]

\* C14: for every tactic, strategy and objective, and for the overall
\* average over the objectives, the percentage lies in [0, 1], the status is
\* one of on-track, at-risk, off-track and the KPI count is a non-negative
\* integer.
C14_OutputRanges ==
  /\ call \in {"tacticPct", "strategyPct", "objectivePct"} => InUnitInterval(ret.percent)
  /\ call \in {"tacticStatus", "strategyStatus", "objectiveStatus"} =>
       /\ InUnitInterval(ret.percent)
       /\ ret.status \in StatusLevel
       /\ ret.total \in Nat
  /\ call \in {"strategyKPICount", "jsStrategyKPICount", "objectiveKPICount"} =>
       ret.total \in Nat
  /\ call = "updateSummaryCards" =>
       /\ InUnitInterval(ret.overallProgress)
       /\ ret.totalKPIsText \in Nat

\* an objective whose only strategy holds an over-target KPI (6 of 4) and a
\* milestone with current 5: 100%, not more
C14_Witness ==
  /\ call = "objectiveStatus"
  /\ Len(arg.o.strategies) = 1
  /\ StrategyLeaves(arg.o.strategies[1]) = <<Numeric(6, 4), Milestone(5)>>
  /\ ret = StatusWithPercent(One, "on-track", 2)

\* two ways of filling in the fields the roll-up does not read: identifiers
\* and back-references that agree with the containing strategy "3.5", and
\* ones that name other entities
Labellings ==
  { [kpi |-> [id |-> "3.5.6.1", unit |-> "acres", ownerDept |-> <<"Stewardship", "ED">>,
              start |-> "2024-01-01", end |-> "2024-12-31", notes |-> "",
              lastUpdated |-> "2024-06-01", objectiveId |-> "3", strategyId |-> "3.5",
              tacticId |-> "3.5.6"],
     entity |-> [id |-> "3.5", name |-> "Protect land", description |-> "a"]],
    [kpi |-> [id |-> "1.1.1.1", unit |-> "%", ownerDept |-> <<>>,
              start |-> "2023-01-01", end |-> "2023-06-30", notes |-> "late",
              lastUpdated |-> "2023-02-01", objectiveId |-> "1", strategyId |-> "1.1",
              tacticId |-> "1.1.1"],
     entity |-> [id |-> "3.5", name |-> "Other", description |-> "b"]] }

\* the same KPI (metricType, target, current) with the other fields from l
LabelKpi(k, l) ==
  [metricType |-> k.metricType, target |-> k.target, current |-> k.current,
   id |-> l.kpi.id, unit |-> l.kpi.unit, ownerDept |-> l.kpi.ownerDept,
   start |-> l.kpi.start, end |-> l.kpi.end, notes |-> l.kpi.notes,
   lastUpdated |-> l.kpi.lastUpdated, objectiveId |-> l.kpi.objectiveId,
   strategyId |-> l.kpi.strategyId, tacticId |-> l.kpi.tacticId]

LabelKpis(list, l) ==
  [list EXCEPT !.items = [i \in 1..Len(list.items) |-> LabelKpi(list.items[i], l)]]

\* the same containment with the names and identifiers from l
LabelTactic(t, l) ==
  [id |-> l.entity.id, name |-> l.entity.name, description |-> l.entity.description,
   kpis |-> LabelKpis(t.kpis, l)]

LabelStrategy(s, l) ==
  [id |-> l.entity.id, name |-> l.entity.name, description |-> l.entity.description,
   kpis |-> LabelKpis(s.kpis, l),
   tactics |-> [s.tactics EXCEPT !.items =
                  [i \in 1..Len(s.tactics.items) |-> LabelTactic(s.tactics.items[i], l)]]]

LabelObjective(o, l) ==
  [id |-> l.entity.id, name |-> l.entity.name, description |-> l.entity.description,
   strategies |-> [i \in 1..Len(o.strategies) |-> LabelStrategy(o.strategies[i], l)]]

\* C15: aggregation is driven by containment and by metricType, target and
\* current alone: a tree with the same containment and the same three
\* fields on every KPI, whatever its identifiers, back-references
\* (objectiveId, strategyId, tacticId), units, owners, dates, notes, names
\* and descriptions, yields the same percentages, statuses and totals at
\* every level.
C15_OnlyContainmentDrivesTheMath ==
  \A l \in Labellings :
    /\ call = "kpiPct" => ret.percent = kpiPct(LabelKpi(arg.k, l))
    /\ call = "kpiStatus" => ret = kpiStatus(LabelKpi(arg.k, l))
    /\ call = "tacticPct" => ret.percent = tacticPct(LabelTactic(arg.t, l))
    /\ call = "tacticStatus" => ret = tacticStatus(LabelTactic(arg.t, l))
    /\ call = "strategyPct" => ret.percent = strategyPct(LabelStrategy(arg.s, l))
    /\ call = "strategyStatus" => ret = strategyStatus(LabelStrategy(arg.s, l))
    /\ call = "strategyKPICount" => ret.total = strategyKPICount(LabelStrategy(arg.s, l))
    /\ call = "objectivePct" => ret.percent = objectivePct(LabelObjective(arg.o, l))
    /\ call = "objectiveStatus" => ret = objectiveStatus(LabelObjective(arg.o, l))

\* the strategy "3.5" whose direct KPI says strategyId "9.9" and whose tactic
\* KPI says tacticId "3.5.1": both count, (4/4 + 1/4) / 2
C15_Witness ==
  /\ call = "strategyStatus"
  /\ "id" \in DOMAIN arg.s
  /\ arg.s.id = "3.5"
  /\ arg.s.kpis.items[1].strategyId = "9.9"
  /\ arg.s.tactics.items[1].id = "3.5.6"
  /\ arg.s.tactics.items[1].kpis.items[1].tacticId = "3.5.1"
  /\ ret = StatusWithPercent(<<5, 8>>, "at-risk", 2)

\* C17: no roll-up, status or count function modifies its input: across
\* every call and every return the value the caller holds is unchanged,
\* field by field and list by list, and once a call has returned the module
\* retains nothing of it.
C17_InputUnchanged ==
  [][ /\ held' = held
      /\ call' = "none" => arg' = <<>> /\ ret' = <<>> ]_vars

\* strategyStatus has returned on a strategy without kpis and tactics
\* fields, and the caller's strategy still has neither
C17_Witness ==
  /\ call = "strategyStatus"
  /\ ret.total = 0
  /\ held = [strategy |-> arg.s]
  /\ ~held.strategy.kpis.present
  /\ ~held.strategy.tactics.present

\* the band of a percentage n/d under the thresholds 70% and 40%
Band(pct) ==
  IF 100 * pct[1] >= 70 * pct[2] THEN "on-track"
  ELSE IF 100 * pct[1] >= 40 * pct[2] THEN "at-risk"
  ELSE "off-track"

\* C18: every status label produced (kpiStatus, tacticStatus,
\* strategyStatus, objectiveStatus, calculateStatus of rollup.js and the
\* items of the objectives page) is getStatusLevel of the percent reported
\* for the same entity, under the one threshold pair 0.70 / 0.40.
C18_OneThresholdPair ==
  /\ call \in {"kpiStatus", "tacticStatus", "strategyStatus", "objectiveStatus",
               "calculateStatus"} =>
       /\ ret.status = getStatusLevel(ret.percent)
       /\ ret.status = Band(ret.percent)
  /\ call = "renderObjectivesList" =>
       \A i \in 1..Len(ret.items) :
         /\ ret.items[i].status = getStatusLevel(ret.items[i].percent)
         /\ ret.items[i].status = Band(ret.items[i].percent)
         /\ ret.items[i].badgeText = getStatusLabel(Band(ret.items[i].percent))

\* calculateStatus of rollup.js at 3/4, between 70% and 80%
C18_Witness ==
  /\ call = "calculateStatus"
  /\ arg.percent = <<3, 4>>
  /\ ret.status = "on-track"

RECURSIVE SumOfKPICounts(_)
SumOfKPICounts(objectives) ==
  IF objectives = <<>>
  THEN 0
  ELSE Len(ObjectiveLeaves(Head(objectives).strategies)) + SumOfKPICounts(Tail(objectives))

\* C19: the overall progress on the objectives page is the average of
\* objectivePct over the objectives of the loaded data (0 when there are
\* none), shown as the nearest whole percent, and the total KPI count shown
\* is the sum of objectiveKPICount over those objectives.
C19_PageOverallAndTotal ==
  call = "updateSummaryCards" =>
    LET objectives == arg.data.objectives
        shown == ret.overallProgressText[1]
        mean == ret.overallProgress
    IN  /\ IsMeanOf(mean, [i \in 1..Len(objectives) |-> objectivePct(objectives[i])])
        /\ Len(objectives) = 0 => shown = 0
        /\ 2 * Abs(100 * mean[1] - shown * mean[2]) <= mean[2]
        /\ ret.overallProgressText[2] = "%"
        /\ ret.totalKPIsText = SumOfKPICounts(objectives)
        /\ ret.totalKPIsText =
             reduceAdd([i \in 1..Len(objectives) |->
                          <<objectiveKPICount(objectives[i]), 1>>], Zero)[1]

\* an objective of two strategies (100% and 0%) and an objective of one
\* (100%): 75% overall, where the average over the three strategies is 67%
C19_Witness ==
  /\ call = "updateSummaryCards"
  /\ Len(arg.data.objectives) = 2
  /\ Len(arg.data.objectives[1].strategies) = 2
  /\ Len(arg.data.objectives[2].strategies) = 1
  /\ ret.overallProgress = <<3, 4>>
  /\ ret.overallProgressText = <<75, "%">>
  /\ ret.totalKPIsText = 3

\* C20: for every milestone KPI, progress is 100% when current > 0 and 0%
\* otherwise (README, and the comment on the milestone branch of kpiPct).
C20_MilestoneDoneWhenPositive ==
  (call = "kpiPct" /\ arg.k.metricType = "milestone") =>
    ret.percent = (IF arg.k.current > 0 THEN One ELSE Zero)

\* C27: rollup.js and rollup.ts agree on their shared operations: kpiPct,
\* aggPct, tacticPct, strategyPct, objectivePct, getStatusLevel and
\* strategyKPICount return the same value in both, and objectiveKPICount
\* (js) equals objectiveStatus(o).total (ts).
C27_BrowserModuleAgrees ==
  /\ call = "kpiPct" => ret.percent = jsKpiPct(arg.k)
  /\ call = "aggPct" => ret.percent = jsAggPct(arg.vals)
  /\ call = "tacticPct" => ret.percent = jsTacticPct(arg.t)
  /\ call = "strategyPct" => ret.percent = jsStrategyPct(arg.s)
  /\ call = "objectivePct" => ret.percent = jsObjectivePct(arg.o)
  /\ call = "getStatusLevel" => ret.status = jsGetStatusLevel(arg.pct)
  /\ call = "strategyKPICount" => ret.total = jsStrategyKPICount(arg.s)
  /\ call = "jsStrategyKPICount" => ret.total = strategyKPICount(arg.strategy)
  /\ call = "objectiveStatus" => ret.total = objectiveKPICount(arg.o)
  /\ call = "objectiveKPICount" => ret.total = objectiveStatus(arg.objective).total

\* a strategy without direct KPIs whose percentage comes from its tactics
C27_Witness ==
  /\ call = "strategyPct"
  /\ Len(OrEmpty(arg.s.kpis)) = 0
  /\ Len(TacticLeaves(OrEmpty(arg.s.tactics))) = 2
  /\ ret.percent = <<3, 4>>
  /\ jsStrategyPct(arg.s) = <<3, 4>>

AllComplete(kpis) == \A i \in 1..Len(kpis) : kpiPct(kpis[i]) = One

\* C28: objectivePct(o) is 1 exactly when o has a strategy, every strategy
\* of o has a leaf KPI and every leaf KPI under o has kpiPct 1; a strategy
\* without KPIs counts as 0 in the average.
C28_CompleteObjective ==
  call = "objectivePct" =>
    LET strategies == arg.o.strategies
    IN  (ret.percent = One) <=>
          /\ Len(strategies) > 0
          /\ \A i \in 1..Len(strategies) :
               /\ Len(StrategyLeaves(strategies[i])) > 0
               /\ AllComplete(StrategyLeaves(strategies[i]))

\* a finished strategy next to a strategy without KPIs: 50%
C28_Witness ==
  /\ call = "objectivePct"
  /\ Len(arg.o.strategies) = 2
  /\ \E i, j \in 1..2 :
       /\ Len(StrategyLeaves(arg.o.strategies[i])) = 0
       /\ Len(StrategyLeaves(arg.o.strategies[j])) > 0
       /\ AllComplete(StrategyLeaves(arg.o.strategies[j]))
  /\ ret.percent = <<1, 2>>

\* C29: a composite result whose total is 0 has percent 0 and status
\* off-track, for tacticStatus, strategyStatus and objectiveStatus.
C29_NoKpisIsOffTrack ==
  (call \in {"tacticStatus", "strategyStatus", "objectiveStatus"} /\ ret.total = 0) =>
    /\ ret.percent = Zero
    /\ ret.status = "off-track"

\* a strategy whose only tactic has no KPIs
C29_Witness ==
  /\ call = "strategyStatus"
  /\ Len(OrEmpty(arg.s.kpis)) = 0
  /\ Len(OrEmpty(arg.s.tactics)) = 1
  /\ ret = StatusWithPercent(Zero, "off-track", 0)

(***************************************************************************)
(* Properties of the ETL.                                                  *)
(***************************************************************************)
\* the first n dot-separated components of an id, joined again
Prefix(id, n) == join(slice(split(id, "."), n), ".")

NumParts(id) == Len(split(id, "."))

\* the entities that carry a kpis list
HasKpis(entity) == "kpis" \in DOMAIN entity

\* kpi is an element of the kpis list of entity
InKpisOf(kpi, entity) ==
  HasKpis(entity) /\ \E j \in 1..Len(entity.kpis) : entity.kpis[j] = kpi

\* the id of the entity C21 designates for a KPI, <<>> for none
DesignatedParent(entities, kpi) ==
  IF NumParts(kpi.id) >= 3 /\ has(entities, Prefix(kpi.id, 3), "tactic")
  THEN Prefix(kpi.id, 3)
  ELSE IF NumParts(kpi.id) >= 2 /\ has(entities, Prefix(kpi.id, 2), "strategy")
       THEN Prefix(kpi.id, 2)
       ELSE <<>>

\* C21: buildHierarchy attaches each parsed KPI to the tactic named by its
\* first three ID components when that tactic exists, otherwise to the
\* strategy named by its first two components when that strategy exists,
\* and otherwise to nothing.
C21_KpiLinkedByIdHierarchy ==
  call = "buildHierarchy" =>
    \A k \in 1..Len(arg.kpis) :
      \A i \in 1..Len(held.linked.entities) :
        InKpisOf(arg.kpis[k], held.linked.entities[i])
          <=> held.linked.entities[i].id = DesignatedParent(arg.entities, arg.kpis[k])

\* objective 1, strategy 1.1 and tactic 1.1.1 exist; KPI 1.1.1.1 lands on the
\* tactic and KPI 1.1.2, whose tactic does not exist, on the strategy
C21_Witness ==
  /\ call = "buildHierarchy"
  /\ Len(arg.kpis) = 2
  /\ \E i, j \in 1..Len(held.linked.entities) :
       /\ kindOf(held.linked.entities[i]) = "tactic"
       /\ kindOf(held.linked.entities[j]) = "strategy"
       /\ held.linked.entities[i].kpis = <<arg.kpis[1]>>
       /\ held.linked.entities[j].kpis = <<arg.kpis[2]>>
       /\ arg.kpis[2].id = <<"1", ".", "1", ".", "2">>

\* the KPIs of the tactics of a strategy of the output, tactic by tactic
RECURSIVE KpisOfTactics(_)
KpisOfTactics(tactics) ==
  IF tactics = <<>> THEN <<>> ELSE Head(tactics).kpis \o KpisOfTactics(Tail(tactics))

\* the KPIs reachable from a list of strategies of the output
RECURSIVE KpisOfStrategies(_)
KpisOfStrategies(strategies) ==
  IF strategies = <<>>
  THEN <<>>
  ELSE Head(strategies).kpis \o KpisOfTactics(Head(strategies).tactics)
         \o KpisOfStrategies(Tail(strategies))

\* the KPIs reachable from the objectives that buildHierarchy returns
RECURSIVE HierarchyKpis(_)
HierarchyKpis(objectives) ==
  IF objectives = <<>>
  THEN <<>>
  ELSE KpisOfStrategies(Head(objectives).strategies) \o HierarchyKpis(Tail(objectives))

\* no two elements of the list have the same id
UniqueIds(list) == \A i, j \in 1..Len(list) : list[i].id = list[j].id => i = j

\* C22: after the sheets are parsed and the hierarchy is built, the flat KPI
\* list and the hierarchy hold no two KPIs with the same id, and no two
\* entities have the same id.
C22_NoDuplicateIds ==
  /\ call = "parseTrackingData" => UniqueIds(ret.kpis)
  /\ call = "parseCombinedObjectives" => UniqueIds(ret.entities)
  /\ call = "buildHierarchy" =>
       /\ UniqueIds(arg.kpis)
       /\ UniqueIds(held.linked.entities)
       /\ UniqueIds(HierarchyKpis(ret.objectives))

\* child is an element of the list of children (compared by id)
IsChild(child, children) == \E j \in 1..Len(children) : children[j].id = child.id

\* C25: a hierarchy row is classified by the number of dot-separated
\* components of its ID: one component is an Objective, two a Strategy
\* placed under the objective named by the first component, three a Tactic
\* placed under the strategy named by the first two components.
C25_ClassifiedByComponents ==
  /\ call = "parseCombinedObjectives" =>
       \A i \in 1..Len(ret.entities) :
         /\ NumParts(ret.entities[i].id) = 1 => kindOf(ret.entities[i]) = "objective"
         /\ NumParts(ret.entities[i].id) = 2 => kindOf(ret.entities[i]) = "strategy"
         /\ NumParts(ret.entities[i].id) = 3 => kindOf(ret.entities[i]) = "tactic"
  /\ call = "buildHierarchy" =>
       \A i, p \in 1..Len(held.linked.entities) :
         LET entity == held.linked.entities[i]
             parent == held.linked.entities[p]
         IN  /\ (NumParts(entity.id) = 2 /\ kindOf(parent) = "objective") =>
                  (IsChild(entity, parent.strategies) <=> parent.id = Prefix(entity.id, 1))
             /\ (NumParts(entity.id) = 3 /\ kindOf(parent) = "strategy") =>
                  (IsChild(entity, parent.tactics) <=> parent.id = Prefix(entity.id, 2))

\* the places <<i, j>> of the kpis lists of the entities that hold kpi
PlacesOf(kpi, entities) ==
  {p \in (1..Len(entities)) \X (1..MaxTrackingRows) :
     /\ HasKpis(entities[p[1]])
     /\ p[2] <= Len(entities[p[1]].kpis)
     /\ entities[p[1]].kpis[p[2]] = kpi}

\* every ancestor that the ID of the entity names is present
ChainExists(entity, entities) ==
  IF kindOf(entity) = "tactic"
  THEN /\ has(entities, Prefix(entity.id, 2), "strategy")
       /\ has(entities, Prefix(entity.id, 1), "objective")
  ELSE kindOf(entity) = "strategy" /\ has(entities, Prefix(entity.id, 1), "objective")

\* the number of elements of list equal to x
Occurrences(x, list) == Cardinality({j \in 1..Len(list) : list[j] = x})

\* C30: after buildHierarchy every parsed KPI is in at most one kpis list;
\* the KPIs reachable from the returned objectives are exactly those
\* attached to a tactic or strategy whose parent chain exists; the flat KPI
\* list keeps every KPI, those of left-out entities included.
C30_OrphansLeftOut ==
  call = "buildHierarchy" =>
    /\ held.linked.kpis = arg.kpis
    /\ \A k \in 1..Len(arg.kpis) :
         LET kpi == arg.kpis[k]
             entities == held.linked.entities
         IN  /\ Cardinality(PlacesOf(kpi, entities)) <= 1
             /\ Occurrences(kpi, HierarchyKpis(ret.objectives)) =
                  IF \E i \in 1..Len(entities) :
                       InKpisOf(kpi, entities[i]) /\ ChainExists(entities[i], entities)
                  THEN 1
                  ELSE 0
    /\ \A j \in 1..Len(HierarchyKpis(ret.objectives)) :
         \E k \in 1..Len(arg.kpis) : HierarchyKpis(ret.objectives)[j] = arg.kpis[k]

\* tactic 1.1.1 holds KPI 1.1.1.1 but its strategy 1.1 is absent: the
\* objective is returned without the KPI, which stays in the flat list
C30_Witness ==
  /\ call = "buildHierarchy"
  /\ Len(ret.objectives) = 1
  /\ HierarchyKpis(ret.objectives) = <<>>
  /\ Len(held.linked.kpis) = 1
  /\ \E i \in 1..Len(held.linked.entities) :
       /\ kindOf(held.linked.entities[i]) = "tactic"
       /\ held.linked.entities[i].kpis = held.linked.kpis

(***************************************************************************)
(* Properties of the ETL process.                                          *)
(***************************************************************************)
\* backup file t holds the present contents of data file f, if f exists
Saved(t, f) ==
  disk[f].exists => (disk.backups[t][f].present /\ disk.backups[t][f].json = disk[f].json)

\* C23: in every run a backup holding the prior contents of each existing
\* data file is on disk before the first data file (objectives.json) is
\* written, the prior kpis.json is still backed up when kpis.json is
\* written, and no step deletes or rewrites a backup that is on disk.
C23_BackupBeforeOverwrite ==
  [][/\ (disk'.objectives # disk.objectives /\ (disk.objectives.exists \/ disk.kpis.exists)) =>
          \E t \in DOMAIN disk.backups : Saved(t, "objectives") /\ Saved(t, "kpis")
     /\ (disk'.kpis # disk.kpis /\ disk.kpis.exists) =>
          \E t \in DOMAIN disk.backups : Saved(t, "kpis")
     /\ \A t \in DOMAIN disk.backups :
          t \in DOMAIN disk'.backups /\ disk'.backups[t] = disk.backups[t]]_vars

\* the second run has written objectives.json: the backup taken in this
\* run holds both files as the first run left them, and the backup of the
\* first run and the one older than it are still there
C23_Witness ==
  /\ run = 2
  /\ pc = "writeKpis"
  /\ disk.objectives.json.lastSync = clock
  /\ DOMAIN disk.backups = {timestamp(0), timestamp(1), timestamp(clock)}
  /\ disk.backups[timestamp(1)] = backupData(OldObjectives, OldKpis)
  /\ disk.backups[timestamp(clock)].objectives.json.lastSync = 1
  /\ disk.backups[timestamp(clock)].kpis.json = disk.kpis.json
  /\ Len(disk.kpis.json.kpis) = 2

\* what the data files hold, lastSync aside
Contents ==
  [objectives |-> IF disk.objectives.exists /\ disk.objectives.valid
                  THEN <<disk.objectives.json.objectives>>
                  ELSE <<>>,
   kpis |-> IF disk.kpis.exists /\ disk.kpis.valid THEN <<disk.kpis.json.kpis>> ELSE <<>>]

\* C24: once the ETL has run, running it again over the same workbooks
\* leaves the hierarchy of objectives.json and the KPI list of kpis.json
\* as the first run left them.
C24_Idempotent == [][run >= 2 => Contents' = Contents]_vars

\* the second run has ended over workbooks with KPIs; both files carry its
\* timestamp and the data the first run wrote
C24_Witness ==
  /\ run = 2
  /\ pc = "exited"
  /\ disk.kpis.json.lastSync = clock
  /\ disk.objectives.json.lastSync = clock
  /\ Len(disk.kpis.json.kpis) = 2
  /\ Len(disk.objectives.json.objectives) = 1
  /\ DOMAIN disk.backups = {timestamp(1), timestamp(clock)}
  /\ disk.backups[timestamp(clock)].kpis.json.kpis = disk.kpis.json.kpis
  /\ disk.backups[timestamp(clock)].kpis.json.lastSync = 1

(***************************************************************************)
(* Properties of the static server.                                        *)
(***************************************************************************)
\* the path is the directory or lies below it
Inside(p, dir) ==
  \/ p = dir
  \/ /\ Len(p) > Len(dir)
     /\ SubSeq(p, 1, Len(dir)) = dir
     /\ p[Len(dir) + 1] = "/"

\* C26: for every request URL the path handed to fs.readFile lies inside
\* ROOT_DIR, and the request gets exactly one response: 200 when the read
\* succeeds, 404 on ENOENT, 500 on any other error.
C26_NoTraversalOneResponse ==
  /\ call = "request" => Inside(ret.filePath, ROOT_DIR) /\ ret.responses = <<>>
  /\ call = "response" =>
       /\ Inside(ret.filePath, ROOT_DIR)
       /\ Len(ret.responses) = 1
       /\ ret.responses[1].status =
            IF arg.code = "none" THEN 200 ELSE IF arg.code = "ENOENT" THEN 404 ELSE 500
====
